---- MODULE Spec2Model ----
(***************************************************************************)
(* A model of the report-assembly pipeline of rh-preproc-sos:              *)
(*   utils.py     count_words, truncate_to_word_limit, read_file_safe,     *)
(*                resolve_paths, heading_anchor, is_valid_sos_directory    *)
(*   builders.py  build_subject_md, build_issues_md                        *)
(*   preproc-sos.py  confirm_prompt, build_issues_md, main                 *)
(*                                                                         *)
(* TEXT.  A Python str is modelled as a sequence of tokens.  A token is a  *)
(* record [c, k]:                                                          *)
(*   - a whitespace character: c is the character, k = 0;                  *)
(*   - a fragment: c is a piece of text that holds no line break, starts   *)
(*     and ends with a non-whitespace character and whose words are        *)
(*     separated by single spaces; k >= 1 is the number of words in it.    *)
(*     A fragment with k = 1 and a one-letter c is a single character.     *)
(* Two adjacent fragments are adjacent characters of the string: the last  *)
(* word of the first and the first word of the second are one word.        *)
(***************************************************************************)
EXTENDS Integers, Sequences, FiniteSets, TLC

VARIABLES
    pc,               \* which call is pending / has returned
    content,          \* truncate_to_word_limit: argument content
    max_words,        \* truncate_to_word_limit: argument max_words
    result,           \* truncate_to_word_limit: returned (text, was_truncated)
    sos,              \* the sosreport tree: path -> state of the file at that path
    subject_def,      \* build_subject_md: argument subject_def
    subject_md,       \* build_subject_md: returned document
    issue_checks,     \* build_issues_md: the registry ISSUE_CHECKS
    triggered_checks, \* build_issues_md: triggered_checks after the loop
    clean_checks,     \* build_issues_md: clean_checks after the loop
    issues_md,        \* build_issues_md: returned document
    args,             \* a call of a function of utils.py: its arguments, by name
    returned,         \* a call of a function of utils.py: what it returned
    now,              \* the clock: what datetime.now().strftime(...) gives
    set_order,        \* the order in which this process iterates a set of paths
    first_run,        \* the clock, set order and output of the first of two runs
    stdin,            \* main: the lines input() has still to read
    output_dir,       \* main: the state of the path os.path.abspath(sys.argv[2])
    events,           \* main: the builder calls and file writes made so far, in order
    exit_status       \* main: the exit status of the process, once it has ended

----------------------------------------------------------------------------
(* Tokens *)

NL == [c |-> "\n", k |-> 0]
CR == [c |-> "\r", k |-> 0]
SP == [c |-> " ", k |-> 0]

Lit(s, n) == [c |-> s, k |-> n]
Num(n) == [c |-> ToString(n), k |-> 1]

\* str.isspace() of the character a token stands for
IsSpace(tok) == tok.k = 0

\* the characters str.splitlines() breaks lines at
IsLineBreak(tok) == tok \in {NL, CR}

Max(a, b) == IF a >= b THEN a ELSE b

----------------------------------------------------------------------------
(* utils.py: text processing *)

\* words that position i of text adds to len(text.split())
WordsAt(text, i) ==
    IF IsSpace(text[i]) THEN 0
    ELSE IF i > 1 /\ ~IsSpace(text[i - 1]) THEN text[i].k - 1
    ELSE text[i].k

\* the words positions lo..hi of text add, summed by halves
RECURSIVE WordsBetween(_, _, _)
WordsBetween(text, lo, hi) ==
    IF lo > hi THEN 0
    ELSE IF lo = hi THEN WordsAt(text, lo)
    ELSE LET mid == (lo + hi) \div 2
         IN  WordsBetween(text, lo, mid) + WordsBetween(text, mid + 1, hi)

\* def count_words(text): return len(text.split())
count_words(text) == WordsBetween(text, 1, Len(text))

\* a splitter that also ends a line at every space (word-wise cutting)
RECURSIVE FirstLineLenWordwise(_, _)
FirstLineLenWordwise(text, i) ==
    IF i > Len(text) THEN Len(text)
    ELSE IF text[i] = CR /\ i < Len(text) /\ text[i + 1] = NL THEN i + 1
    ELSE IF IsLineBreak(text[i]) \/ text[i] = SP THEN i
    ELSE FirstLineLenWordwise(text, i + 1)

\* length of the first line of a non-empty text, its terminator included
\* ("\r\n" is one terminator)
RECURSIVE FirstLineLen(_, _)
FirstLineLen(text, i) ==
    IF i > Len(text) THEN Len(text)
    ELSE IF text[i] = CR /\ i < Len(text) /\ text[i + 1] = NL THEN i + 1
    ELSE IF IsLineBreak(text[i]) THEN i
    ELSE FirstLineLen(text, i + 1)

\* the positions lo..hi of text at which a line ends, in order, found by halves
RECURSIVE LineEnds(_, _, _)
LineEnds(text, lo, hi) ==
    IF lo > hi THEN << >>
    ELSE IF lo = hi THEN (IF FirstLineLen(text, lo) = lo THEN << lo >> ELSE << >>)
    ELSE LET mid == (lo + hi) \div 2
         IN  LineEnds(text, lo, mid) \o LineEnds(text, mid + 1, hi)

\* the lines of text that end at the positions ends
LinesEndingAt(text, ends) ==
    << >> \o [j \in DOMAIN ends |->
                SubSeq(text, IF j = 1 THEN 1 ELSE ends[j - 1] + 1, ends[j])]

\* content.splitlines(keepends=True)
splitlines_keepends(text) == LinesEndingAt(text, LineEnds(text, 1, Len(text)))

\* sep.join(lines[lo..hi]), joined by halves
RECURSIVE JoinBetween(_, _, _, _)
JoinBetween(lines, sep, lo, hi) ==
    IF lo > hi THEN << >>
    ELSE IF lo = hi THEN lines[lo]
    ELSE LET mid == (lo + hi) \div 2
         IN  JoinBetween(lines, sep, lo, mid) \o sep \o JoinBetween(lines, sep, mid + 1, hi)

\* sep.join(lines)
Join(lines, sep) == JoinBetween(lines, sep, 1, Len(lines))

\* "".join(lines)
Concat(lines) == Join(lines, << >>)

\* WORD_TRUNCATION_NOTICE.format(n=n)
\* "\n\n... [TRUNCATED - content exceeded word limit, showing last {n} words] ...\n\n"
WordTruncationNotice(n) ==
    << NL, NL,
       Lit("... [TRUNCATED - content exceeded word limit, showing last", 9),
       SP, Num(n), SP, Lit("words] ...", 2), NL, NL >>

\* the early return taken only strictly below the limit
FitsLimitStrict(total_words, limit) == total_words < limit

\* if total_words <= max_words: return content, False
FitsLimit(total_words, limit) == total_words <= limit

\* a scan that tests the limit before adding the line
OverflowsLate(word_count, line_words, limit) == word_count > limit

\* if word_count + line_words > max_words: break
Overflows(word_count, line_words, limit) == word_count + line_words > limit

\* The backward scan "for line in reversed(lines)": the number of lines kept,
\* starting with kept lines holding word_count words already kept.
RECURSIVE KeptCount(_, _, _, _)
KeptCount(lines, limit, kept, word_count) ==
    IF kept = Len(lines) THEN kept
    ELSE LET line_words == count_words(lines[Len(lines) - kept])
         IN  IF Overflows(word_count, line_words, limit) THEN kept
             ELSE KeptCount(lines, limit, kept + 1, word_count + line_words)

\* a scan that passes over a line that does not fit ("continue" for "break")
\* and goes on to the lines before it
RECURSIVE KeptFitting(_, _, _, _)
KeptFitting(lines, limit, seen, word_count) ==
    IF seen = Len(lines) THEN << >>
    ELSE LET line == lines[Len(lines) - seen]
             line_words == count_words(line)
         IN  IF Overflows(word_count, line_words, limit)
             THEN KeptFitting(lines, limit, seen + 1, word_count)
             ELSE KeptFitting(lines, limit, seen + 1, word_count + line_words) \o << line >>
KeptLinesFitting(lines, limit) == KeptFitting(lines, limit, 0, 0)

\* kept_lines after kept_lines.reverse()
KeptLines(lines, limit) ==
    LET kept == KeptCount(lines, limit, 0, 0)
    IN  SubSeq(lines, Len(lines) - kept + 1, Len(lines))

\* def truncate_to_word_limit(content, max_words) -> (text, was_truncated)
truncate_to_word_limit(text, limit) ==
    IF FitsLimit(count_words(text), limit)
    THEN [text |-> text, was_truncated |-> FALSE]
    ELSE LET kept_lines == KeptLines(splitlines_keepends(text), limit)
             word_count == count_words(Concat(kept_lines))
         IN  [text |-> WordTruncationNotice(word_count) \o Concat(kept_lines),
              was_truncated |-> TRUE]

----------------------------------------------------------------------------
(* The sosreport tree *)

\* A path is the sequence of its components.  sos maps every path of the tree,
\* relative to the root, to the state of the file there.
Absent == [kind |-> "absent", data |-> << >>]
Dir == [kind |-> "dir", data |-> << >>]
Unreadable == [kind |-> "unreadable", data |-> << >>]   \* a file whose read fails
File(data) == [kind |-> "file", data |-> data]

LOG_MAX_LINES == 50000

\* A log of LOG_MAX_LINES + 1 lines: the first line reads "avc:", the others
\* "type=SYSCALL".  It is too long to be written out in every state; the tree
\* holds LongLogMark in its place, and FileData gives the content of a file.
LongLog ==
    << Lit("a", 1), Lit("v", 1), Lit("c", 1), Lit(":", 1), NL >>
        \o [i \in 1 .. 2 * LOG_MAX_LINES |->
                IF i % 2 = 1 THEN Lit("type=SYSCALL", 1) ELSE NL]
LongLogMark == << [c |-> "LongLog", k |-> 0 - 3] >>
FileData(node) == IF node.data = LongLogMark THEN LongLog ELSE node.data

\* sos_root = os.path.abspath(sys.argv[1])
sos_root == << "tmp", "sosreport-host" >>

IsPrefix(s, t) == Len(s) <= Len(t) /\ SubSeq(t, 1, Len(s)) = s
IsSuffix(s, t) == Len(s) <= Len(t) /\ SubSeq(t, Len(t) - Len(s) + 1, Len(t)) = s

\* os.path.join(sos_root, relpath)
JoinPath(root, relpath) == root \o relpath

\* os.path.relpath(path, sos_root), for a path beneath sos_root
make_relative(path, root) == SubSeq(path, Len(root) + 1, Len(path))

\* os.path.basename(sos_root)
basename(path) == path[Len(path)]

\* the path as a string, components joined by "/"
RECURSIVE PathString(_)
PathString(path) ==
    IF Len(path) = 1 THEN path[1]
    ELSE path[1] \o "/" \o PathString(Tail(path))

\* the state of the file at an absolute path
NodeAt(path) ==
    IF IsPrefix(sos_root, path) /\ make_relative(path, sos_root) \in DOMAIN sos
    THEN sos[make_relative(path, sos_root)]
    ELSE Absent

\* os.path.isfile, os.path.isdir
isfile(path) == NodeAt(path).kind \in {"file", "unreadable"}
isdir(path) == NodeAt(path).kind = "dir"

\* the absolute paths of the tree
TreePaths == {JoinPath(sos_root, rel) : rel \in DOMAIN sos}

----------------------------------------------------------------------------
(* utils.py: read_file_safe *)

\* the value None, which no text equals
None == << [c |-> "None", k |-> 0 - 1] >>

\* TRUNCATION_NOTICE.format(n=n): "\n... [TRUNCATED - showing last {n} lines] ...\n"
TruncationNotice(n) ==
    << NL, Lit("... [TRUNCATED - showing last", 5), SP, Num(n), SP,
       Lit("lines] ...", 2), NL >>

\* the message of the exception a failed read raises:
\* PermissionError(13, 'Permission denied', filepath)
ReadErrorMessage ==
    << Lit("[Errno 13] Permission", 3), SP,
       Lit("d", 1), Lit("e", 1), Lit("n", 1), Lit("i", 1), Lit("e", 1), Lit("d", 1),
       Lit(":", 1), SP, Lit("'<path>'", 1) >>

\* an exception that leaves the function, which no text equals
Raised == << [c |-> "raise", k |-> 0 - 2] >>

\* a handler that lets the exception of the read leave the function
OnReadErrorReraise(e) == Raised

\* a handler that treats the file whose read failed as a missing one
OnReadErrorSkip(e) == None

\* except Exception as e: return f"[ERROR reading file: {e}]"
OnReadError(e) == << Lit("[ERROR reading file:", 3), SP >> \o e \o << Lit("]", 1) >>

\* what read_file_safe returns for a file whose read fails
ErrorText == OnReadError(ReadErrorMessage)

\* one line as text mode gives it: its terminator "\r\n" or "\r" reads as "\n"
UniversalNewline(line) ==
    IF Len(line) >= 2 /\ line[Len(line) - 1] = CR /\ line[Len(line)] = NL
    THEN SubSeq(line, 1, Len(line) - 2) \o << NL >>
    ELSE IF line # << >> /\ line[Len(line)] = CR
    THEN SubSeq(line, 1, Len(line) - 1) \o << NL >>
    ELSE line

\* f.readlines() of a file opened in text mode
readlines(data) ==
    LET raw == splitlines_keepends(data)
    IN  << >> \o [i \in DOMAIN raw |-> UniversalNewline(raw[i])]

\* lines[-n:]: the last n lines for n >= 1; -0 is 0, so lines[-0:] is every
\* line; for n < 0 the slice starts at index -n
LastLines(lines, n) ==
    IF n > 0 THEN SubSeq(lines, Max(Len(lines) - n, 0) + 1, Len(lines))
    ELSE SubSeq(lines, (0 - n) + 1, Len(lines))

\* def read_file_safe(filepath, max_lines)
read_file_safe(filepath, max_lines) ==
    IF ~isfile(filepath) THEN None
    ELSE IF NodeAt(filepath).kind = "unreadable" THEN OnReadError(ReadErrorMessage)
    ELSE LET lines == readlines(FileData(NodeAt(filepath)))
         IN  IF Len(lines) > max_lines
             THEN TruncationNotice(max_lines) \o Concat(LastLines(lines, max_lines))
             ELSE Concat(lines)

----------------------------------------------------------------------------
(* utils.py: resolve_paths *)

\* a walk that stops at the files directly in the directory
WalkFilesShallow(full) ==
    {p \in TreePaths : IsPrefix(full, p) /\ Len(p) = Len(full) + 1 /\ isfile(p)}

\* for root, _, files in os.walk(full): found.add(os.path.join(root, fname))
WalkFiles(full) ==
    {p \in TreePaths : IsPrefix(full, p) /\ Len(p) > Len(full) /\ isfile(p)}

\* what one explicit path or glob match adds to found
Expand(full) ==
    IF isfile(full) THEN {full}
    ELSE IF isdir(full) THEN WalkFiles(full)
    ELSE {}

\* glob.glob(os.path.join(sos_root, pattern), recursive=False); a pattern is the
\* sequence of its components and the component "*" matches any one name
GlobMatches(root, pattern) ==
    {p \in TreePaths :
        /\ NodeAt(p).kind # "absent"
        /\ Len(p) = Len(root) + Len(pattern)
        /\ \A i \in 1 .. Len(pattern) :
              pattern[i] = "*" \/ pattern[i] = p[Len(root) + i]}

\* the relative paths of the modelled trees in ascending order of their strings
\* ("." sorts before "/", so "etc/sysconfig.bak" precedes "etc/sysconfig/network")
PathOrder ==
    << <<"etc">>, <<"etc", "hosts">>, <<"etc", "resolv.conf">>,
       <<"etc", "sysconfig">>, <<"etc", "sysconfig.bak">>,
       <<"etc", "sysconfig", "network">> >>

\* list(found): the paths in the order the set happens to iterate them
InIterationOrder(found) ==
    LET all == [i \in 1 .. Len(set_order) |-> JoinPath(sos_root, set_order[i])]
        In(p) == p \in found
    IN  SelectSeq(all, In)

\* sorted(found)
Sorted(found) ==
    LET all == [i \in 1 .. Len(PathOrder) |-> JoinPath(sos_root, PathOrder[i])]
        In(p) == p \in found
    IN  SelectSeq(all, In)

\* def resolve_paths(sos_root, file_list, glob_patterns)
resolve_paths(root, file_list, glob_patterns) ==
    LET fromFiles == UNION {Expand(JoinPath(root, file_list[i])) :
                               i \in 1 .. Len(file_list)}
        fromGlobs == UNION {UNION {Expand(m) : m \in GlobMatches(root, glob_patterns[i])} :
                               i \in 1 .. Len(glob_patterns)}
    IN  Sorted(fromFiles \cup fromGlobs)


----------------------------------------------------------------------------
(* utils.py: is_valid_sos_directory *)

sos_indicators ==
    << "sos_commands", "etc", "proc", "var", "sos_logs", "sos_reports",
       "installed-rpms", "uname", "hostname", "uptime", "date", "free", "version.txt" >>

\* os.path.exists(full_path)
exists(path) == NodeAt(path).kind # "absent"

\* a rule that asks for four indicators whatever they are
IsValidFourOnly(has_sos_commands, count) == count >= 4

\* is_valid = (has_sos_commands and len(found) >= 3) or len(found) >= 4
IsValid(has_sos_commands, count) == (has_sos_commands /\ count >= 3) \/ count >= 4

\* def is_valid_sos_directory(path) -> (is_valid, found)
is_valid_sos_directory(path) ==
    LET Exists(indicator) == exists(JoinPath(path, << indicator >>))
        found == SelectSeq(sos_indicators, Exists)
        has_sos_commands == \E i \in DOMAIN found : found[i] = "sos_commands"
    IN  [is_valid |-> IsValid(has_sos_commands, Len(found)), found |-> found]
----------------------------------------------------------------------------
(* builders.py: build_subject_md *)

MAX_WORDS_PER_FILE == 499000
DEFAULT_MAX_LINES == 1500
truncation_notice_words == 20

\* the fence line of a code block, three backquotes; in the strings of this
\* module "~" stands for the backquote character
FENCE == << Lit("~~~", 1) >>

\* text.strip()
RECURSIVE lstrip(_)
lstrip(text) ==
    IF text # << >> /\ IsSpace(Head(text)) THEN lstrip(Tail(text)) ELSE text

RECURSIVE rstrip(_)
rstrip(text) ==
    IF text # << >> /\ IsSpace(text[Len(text)])
    THEN rstrip(SubSeq(text, 1, Len(text) - 1)) ELSE text

strip(text) == rstrip(lstrip(text))

\* subject_def.get(key, default)
Get(d, key, default) == IF key \in DOMAIN d THEN d[key] ELSE default

\* datetime.now().strftime('%Y-%m-%d %H:%M:%S')
Timestamp == Lit(now, 2)

\* header = "\n".join(header_lines)
SubjectHeader(root, def) ==
    Join(<< << Lit("#", 1), SP >> \o def.title,
            << >>,
            << Lit(">", 1), SP >> \o def.description,
            << >>,
            << Lit("> Generated:", 2), SP, Timestamp >>,
            << Lit("> SOS Report: ~", 4), Lit(basename(root), 1), Lit("~", 1) >>,
            << >>,
            << Lit("---", 1) >>,
            << >> >>, << NL >>)

\* a loop that keeps the section of a file that is empty after trimming
FileSectionKeepEmpty(root, filepath, max_lines) ==
    LET relpath == make_relative(filepath, root)
        read == read_file_safe(filepath, max_lines)
    IN  IF read = None THEN << >>
        ELSE << << Lit("##", 1), SP, Lit(PathString(relpath), 1) >>,
                << >>,
                FENCE,
                strip(read),
                FENCE,
                << >> >>

\* the lines one resolved file appends to content_lines (none when it is skipped)
FileSection(root, filepath, max_lines) ==
    LET relpath == make_relative(filepath, root)
        read == read_file_safe(filepath, max_lines)
    IN  IF read = None THEN << >>
        ELSE IF strip(read) = << >> THEN << >>
        ELSE << << Lit("##", 1), SP, Lit(PathString(relpath), 1) >>,
                << >>,
                FENCE,
                strip(read),
                FENCE,
                << >> >>

\* content_lines after the loop "for filepath in resolved"
RECURSIVE ContentLines(_, _, _)
ContentLines(root, resolved, max_lines) ==
    IF resolved = << >> THEN << >>
    ELSE FileSection(root, Head(resolved), max_lines)
            \o ContentLines(root, Tail(resolved), max_lines)

\* files_found after the loop
FilesFound(root, resolved, max_lines) ==
    Cardinality({i \in 1 .. Len(resolved) :
                    FileSection(root, resolved[i], max_lines) # << >>})

\* footer = f"\n---\n*Total files included: {files_found}*"
SubjectFooter(files_found) ==
    << NL, Lit("---", 1), NL, Lit("*Total files included:", 3), SP,
       Lit(ToString(files_found) \o "*", 1) >>

NoMatchingFiles == << Lit("*No matching files found in this sosreport.*", 7) >>
NoReadableFiles == << Lit("*No readable files with content found for this subject.*", 9) >>

\* a budget that forgets the header and the footer
SubjectBudgetBodyOnly(header, footer) ==
    MAX_WORDS_PER_FILE - truncation_notice_words

\* content_word_budget = MAX_WORDS_PER_FILE - header_words - footer_words
\*                       - truncation_notice_words
SubjectBudget(header, footer) ==
    MAX_WORDS_PER_FILE - count_words(header) - count_words(footer)
        - truncation_notice_words

\* a builder that cuts the assembled document instead of the body
AssembleSubjectCutWhole(header, body, footer) ==
    truncate_to_word_limit(header \o body \o footer,
                           MAX_WORDS_PER_FILE - truncation_notice_words).text

\* if content_words > content_word_budget: content, _ = truncate_to_word_limit(...)
\* return header + content + footer
AssembleSubject(header, body, footer) ==
    LET content_word_budget == SubjectBudget(header, footer)
        cut == IF count_words(body) > content_word_budget
               THEN truncate_to_word_limit(body, content_word_budget).text
               ELSE body
    IN  header \o cut \o footer

\* the body before truncation: content = "\n".join(content_lines)
SubjectBody(root, def) ==
    LET max_lines == Get(def, "max_lines", DEFAULT_MAX_LINES)
        resolved == resolve_paths(root, Get(def, "files", << >>), Get(def, "globs", << >>))
    IN  Join(ContentLines(root, resolved, max_lines), << NL >>)

\* def build_subject_md(sos_root, subject_def)
build_subject_md(root, def) ==
    LET header == SubjectHeader(root, def)
        max_lines == Get(def, "max_lines", DEFAULT_MAX_LINES)
        resolved == resolve_paths(root, Get(def, "files", << >>), Get(def, "globs", << >>))
        files_found == FilesFound(root, resolved, max_lines)
    IN  IF resolved = << >> THEN header \o NoMatchingFiles
        ELSE IF files_found = 0 THEN header \o NoReadableFiles
        ELSE AssembleSubject(header, SubjectBody(root, def), SubjectFooter(files_found))

----------------------------------------------------------------------------
(* utils.py: heading_anchor *)

\* A name is written character by character: Chars turns the sequence of its
\* characters into text.
Chars(cs) == [i \in DOMAIN cs |-> IF cs[i] = " " THEN SP ELSE Lit(cs[i], 1)]

UpperCase == << "A", "B", "C", "D", "E", "F", "G", "H", "I", "J", "K", "L", "M", "N", "O", "P", "Q", "R", "S", "T", "U", "V", "W", "X", "Y", "Z" >>
LowerCase == << "a", "b", "c", "d", "e", "f", "g", "h", "i", "j", "k", "l", "m", "n", "o", "p", "q", "r", "s", "t", "u", "v", "w", "x", "y", "z" >>
Digits == {"0", "1", "2", "3", "4", "5", "6", "7", "8", "9"}

Range(f) == {f[i] : i \in DOMAIN f}
UpperLetters == Range(UpperCase)
LowerLetters == Range(LowerCase)

\* c.lower()
LowerChar(ch) ==
    IF ch \in UpperLetters
    THEN LowerCase[CHOOSE i \in DOMAIN UpperCase : UpperCase[i] = ch]
    ELSE ch

\* Capital letters that str.lower() leaves as they are and for which isalnum()
\* holds, such as the double-struck capital C; a character outside ASCII is
\* written by its code point.
CapitalsWithoutSmall == {"U+2102"}

\* c.isalnum() or c in " -"
KeptInAnchor(ch) ==
    ch \in UpperLetters \cup LowerLetters \cup Digits \cup CapitalsWithoutSmall \cup {" ", "-"}

\* a single anchor.replace("--", "-"), without the loop
RECURSIVE CollapseHyphensOnce(_)
CollapseHyphensOnce(cs) ==
    IF Len(cs) < 2 THEN cs
    ELSE IF cs[1] = "-" /\ cs[2] = "-"
    THEN << "-" >> \o CollapseHyphensOnce(SubSeq(cs, 3, Len(cs)))
    ELSE << cs[1] >> \o CollapseHyphensOnce(Tail(cs))

\* while "--" in anchor: anchor = anchor.replace("--", "-")
RECURSIVE CollapseHyphens(_)
CollapseHyphens(cs) ==
    IF Len(cs) < 2 THEN cs
    ELSE IF cs[1] = "-" /\ cs[2] = "-" THEN CollapseHyphens(Tail(cs))
    ELSE << cs[1] >> \o CollapseHyphens(Tail(cs))

\* anchor.strip("-")
RECURSIVE StripHyphens(_)
StripHyphens(cs) ==
    IF cs # << >> /\ cs[1] = "-" THEN StripHyphens(Tail(cs))
    ELSE IF cs # << >> /\ cs[Len(cs)] = "-" THEN StripHyphens(SubSeq(cs, 1, Len(cs) - 1))
    ELSE cs

\* def heading_anchor(name), on the characters of the name
AnchorChars(cs) ==
    LET lowered == [i \in DOMAIN cs |-> LowerChar(cs[i])]
        Keep(ch) == KeptInAnchor(ch)
        kept == SelectSeq(lowered, Keep)
        hyphened == [i \in DOMAIN kept |-> IF kept[i] = " " THEN "-" ELSE kept[i]]
    IN  StripHyphens(CollapseHyphens(hyphened))

heading_anchor(name) == Chars(AnchorChars([i \in DOMAIN name |-> name[i].c]))

----------------------------------------------------------------------------
(* builders.py: build_issues_md, the checks *)

\* content.splitlines()
splitlines(text) ==
    LET lines == splitlines_keepends(text)
        Bare(line) ==
            IF Len(line) >= 2 /\ line[Len(line) - 1] = CR /\ line[Len(line)] = NL
            THEN SubSeq(line, 1, Len(line) - 2)
            ELSE IF line # << >> /\ IsLineBreak(line[Len(line)])
            THEN SubSeq(line, 1, Len(line) - 1)
            ELSE line
    IN  << >> \o [i \in DOMAIN lines |-> Bare(lines[i])]

\* text.lower(); the texts the checks search are written character by
\* character, and no fragment of more than one character holds, in any letter
\* case, one of the substrings searched for
lower(text) == << >> \o [i \in DOMAIN text |-> [text[i] EXCEPT !.c = LowerChar(@)]]

\* needle in text, for a needle given by its characters
In(needle, text) ==
    \E i \in 1 .. Len(text) - Len(needle) + 1 :
        \A j \in DOMAIN needle : text[i + j - 1].c = needle[j]

\* issue_checks.py, "Failed Systemd Units":
\* lambda content: content.strip() and "0 loaded units listed" not in content
NoUnitsListed ==
    << "0", " ", "l", "o", "a", "d", "e", "d", " ", "u", "n", "i", "t", "s", " ",
       "l", "i", "s", "t", "e", "d" >>
\* a predicate that looks for the marker in any letter case
FailedUnitsAnyCase(text) == strip(text) # << >> /\ ~In(NoUnitsListed, lower(text))
FailedUnits(text) == strip(text) # << >> /\ ~In(NoUnitsListed, text)

\* issue_checks.py, "SELinux Denials in Audit Log":
\* "denied" in content.lower() or "avc:" in content.lower()
HoldsDenial(lowered) ==
    In(<< "d", "e", "n", "i", "e", "d" >>, lowered) \/ In(<< "a", "v", "c", ":" >>, lowered)
MentionsDenial(text) == HoldsDenial(lower(text))

\* the number of matching lines the filter keeps: [...][-200:]
SELINUX_KEPT_LINES == 200

\* a filter that keeps the first matching lines: [...][:200]
SELinuxFilterFirst(lines) ==
    LET matching == SelectSeq(lines, MentionsDenial)
    IN  IF Len(matching) > SELINUX_KEPT_LINES
        THEN SubSeq(matching, 1, SELINUX_KEPT_LINES) ELSE matching
\* lambda lines: [l for l in lines if "denied" in l.lower() or "avc:" in l.lower()][-200:]
SELinuxFilter(lines) == LastLines(SelectSeq(lines, MentionsDenial), SELINUX_KEPT_LINES)

\* A check definition is a record with the keys name, source, description and
\* check, and optionally filter and filter_terms.  Its check and its filter are
\* functions; the registries modelled here use these:
\*   check   "always"       lambda content: True
\*           "never"        lambda content: False
\*           "nonblank"     lambda content: content.strip()
\*           "raises"       a predicate that raises an exception
\*           "failed_units" the predicate of "Failed Systemd Units"
\*           "selinux"      the predicate of "SELinux Denials in Audit Log"
\*   filter  "all"          lambda lines: lines
\*           "last"         lambda lines: lines[-1:]
\*           "none"         lambda lines: []
\*           "raises"       a filter that raises an exception
\*           "selinux"      the filter of "SELinux Denials in Audit Log"
CheckRaises(check_def, text) == check_def.check = "raises"

CheckValue(check_def, text) ==
    CASE check_def.check = "always" -> TRUE
      [] check_def.check = "never" -> FALSE
      [] check_def.check = "nonblank" -> strip(text) # << >>
      [] check_def.check = "failed_units" -> FailedUnits(text)
      [] check_def.check = "selinux" -> MentionsDenial(text)
      [] OTHER -> FALSE

FilterRaises(check_def, lines) == check_def.filter = "raises"

FilterValue(check_def, lines) ==
    CASE check_def.filter = "all" -> lines
      [] check_def.filter = "last" ->
            IF lines = << >> THEN << >> ELSE << lines[Len(lines)] >>
      [] check_def.filter = "selinux" -> SELinuxFilter(lines)
      [] OTHER -> << >>

\* a predicate call outside any try block: its exception escapes
TryCheckUnprotected(check_def, text) ==
    [escaped |-> CheckRaises(check_def, text),
     value |-> ~CheckRaises(check_def, text) /\ CheckValue(check_def, text)]

\* triggered = False
\* try: triggered = check_def["check"](content)
\* except Exception: triggered = False
TryCheck(check_def, text) ==
    [escaped |-> FALSE,
     value |-> IF CheckRaises(check_def, text) THEN FALSE
               ELSE CheckValue(check_def, text)]

\* a builder that falls back to the full text when the filter yields nothing
DisplayContentFullOnEmpty(check_def, text) ==
    IF "filter" \in DOMAIN check_def
    THEN IF FilterRaises(check_def, splitlines(text)) THEN text
         ELSE LET filtered == FilterValue(check_def, splitlines(text))
              IN  IF filtered # << >> THEN Join(filtered, << NL >>) ELSE text
    ELSE text

\* display_content = content
\* if "filter" in check_def:
\*     try: filtered = check_def["filter"](content.splitlines())
\*          display_content = "\n".join(filtered) if filtered else None
\*     except Exception: display_content = content
DisplayContent(check_def, text) ==
    IF "filter" \in DOMAIN check_def
    THEN IF FilterRaises(check_def, splitlines(text)) THEN text
         ELSE LET filtered == FilterValue(check_def, splitlines(text))
              IN  IF filtered # << >> THEN Join(filtered, << NL >>) ELSE None
    ELSE text

\* a loop that counts a check without a source as clean
SourceMissingNever(text) == FALSE

\* if content is None: continue
SourceMissing(text) == text = None

\* one iteration of "for check_def in ISSUE_CHECKS": what the check is recorded as
CheckOutcome(root, check_def) ==
    LET text == read_file_safe(JoinPath(root, check_def.source), LOG_MAX_LINES)
        triggered == TryCheck(check_def, text)
    IN  IF SourceMissing(text) THEN [status |-> "skipped", display |-> None]
        ELSE IF triggered.escaped THEN [status |-> "raised", display |-> None]
        ELSE IF ~triggered.value THEN [status |-> "clean", display |-> None]
        ELSE [status |-> "triggered", display |-> DisplayContent(check_def, text)]

\* a loop that puts each check at the head of its list (insert(0, ...) for
\* append), so that the lists come out newest first
RECURSIVE RunChecksNewestFirst(_, _, _)
RunChecksNewestFirst(root, checks, i) ==
    IF i > Len(checks) THEN [triggered |-> << >>, clean |-> << >>, escaped |-> FALSE]
    ELSE LET out == CheckOutcome(root, checks[i])
             rest == RunChecksNewestFirst(root, checks, i + 1)
         IN  CASE out.status = "raised" ->
                    [triggered |-> << >>, clean |-> << >>, escaped |-> TRUE]
               [] out.status = "skipped" -> rest
               [] out.status = "clean" ->
                    [rest EXCEPT !.clean = Append(@, checks[i].name)]
               [] OTHER ->
                    [rest EXCEPT !.triggered =
                        Append(@, [check_def |-> checks[i], display_content |-> out.display])]

\* the loop "for check_def in ISSUE_CHECKS", run on checks[i..]: the lists
\* triggered_checks and clean_checks, and whether an exception left the loop
RECURSIVE RunChecks(_, _, _)
RunChecks(root, checks, i) ==
    IF i > Len(checks) THEN [triggered |-> << >>, clean |-> << >>, escaped |-> FALSE]
    ELSE LET out == CheckOutcome(root, checks[i])
             rest == RunChecks(root, checks, i + 1)
         IN  CASE out.status = "raised" ->
                    [triggered |-> << >>, clean |-> << >>, escaped |-> TRUE]
               [] out.status = "skipped" -> rest
               [] out.status = "clean" ->
                    [rest EXCEPT !.clean = << checks[i].name >> \o @]
               [] OTHER ->
                    [rest EXCEPT !.triggered =
                        << [check_def |-> checks[i], display_content |-> out.display] >> \o @]

----------------------------------------------------------------------------
(* builders.py: build_issues_md, the document *)

QuickFiles ==
    << <<"etc", "redhat-release">>, <<"sos_commands", "kernel", "uname_-a">>,
       <<"sos_commands", "host", "hostnamectl">>, <<"uptime">> >>

\* the header lines of one quick file: if content: ...
QuickSection(root, quick_file) ==
    LET text == read_file_safe(JoinPath(root, quick_file), 20)
    IN  IF text = None \/ text = << >> THEN << >>
        ELSE << << Lit("**" \o PathString(quick_file) \o ":**", 1) >>,
                FENCE \o << NL >> \o strip(text) \o << NL >> \o FENCE,
                << >> >>

RECURSIVE QuickSections(_, _)
QuickSections(root, files) ==
    IF files = << >> THEN << >>
    ELSE QuickSection(root, Head(files)) \o QuickSections(root, Tail(files))

\* header = "\n".join(header_lines)
IssuesHeader(root) ==
    Join(<< << Lit("# Issues Investigation Report", 4) >>,
            << >>,
            << Lit("> Automated scan of the sosreport for common problems and red flags.", 12) >>,
            << Lit("> Generated:", 2), SP, Timestamp >>,
            << Lit("> SOS Report: ~", 4), Lit(basename(root), 1), Lit("~", 1) >>,
            << >>,
            << Lit("---", 1) >>,
            << >>,
            << Lit("## System Identity", 3) >>,
            << >> >>
         \o QuickSections(root, QuickFiles)
         \o << << Lit("---", 1) >>, << >> >>, << NL >>)

\* f"- [{check_def['name']}](#{anchor}) - {check_def['description']}"
FlaggedLine(check_def) ==
    << Lit("- [", 2) >> \o check_def.name \o << Lit("](#", 1) >>
        \o heading_anchor(check_def.name) \o << Lit(") -", 2), SP >>
        \o check_def.description

\* summary = "\n".join(summary_lines)
IssuesSummary(triggered_checks_, clean_checks_) ==
    Join(<< << Lit("## Summary", 2) >>,
            << >>,
            << Lit("- **Issues flagged:**", 3), SP, Num(Len(triggered_checks_)) >>,
            << Lit("- **Checks passed:**", 3), SP, Num(Len(clean_checks_)) >>,
            << >> >>
         \o (IF triggered_checks_ # << >>
             THEN << << Lit("### Flagged Issues", 3) >>, << >> >>
                    \o [i \in DOMAIN triggered_checks_ |->
                            FlaggedLine(triggered_checks_[i].check_def)]
                    \o << << >> >>
             ELSE << >>)
         \o (IF clean_checks_ # << >>
             THEN << << Lit("### Clean Checks (no issues detected)", 6) >>, << >> >>
                    \o [i \in DOMAIN clean_checks_ |->
                            << Lit("-", 1), SP >> \o clean_checks_[i]]
                    \o << << >> >>
             ELSE << >>)
         \o << << Lit("---", 1) >>, << >> >>, << NL >>)

\* f"*Searched ~{source}~ for {terms} - no matching lines found.*"
NoMatchNotice(check_def) ==
    << Lit("*Searched ~", 2), Lit(PathString(check_def.source), 1), Lit("~ for", 2), SP >>
        \o Get(check_def, "filter_terms", << Lit("the specified patterns", 3) >>)
        \o << SP, Lit("- no matching lines found.*", 5) >>

\* the first lines of a detail section, up to the display content
DetailHead(check_def) ==
    << << Lit("##", 1), SP >> \o check_def.name,
       << >>,
       << Lit("**Source:** ~", 2), Lit(PathString(check_def.source), 1), Lit("~", 1) >>,
       << Lit("**What this means:**", 3), SP >> \o check_def.description,
       << >> >>

\* the lines one triggered check appends to detail_lines
DetailSection(check_def, display_content) ==
    DetailHead(check_def)
        \o (IF display_content = None
            THEN << NoMatchNotice(check_def) >>
            ELSE << FENCE, strip(display_content), FENCE >>)
        \o << << >>, << Lit("---", 1) >>, << >> >>

RECURSIVE DetailLines(_)
DetailLines(triggered_checks_) ==
    IF triggered_checks_ = << >> THEN << >>
    ELSE DetailSection(Head(triggered_checks_).check_def,
                       Head(triggered_checks_).display_content)
            \o DetailLines(Tail(triggered_checks_))

\* main_content = "\n".join(detail_lines)
IssuesDetails(triggered_checks_) == Join(DetailLines(triggered_checks_), << NL >>)

\* footer = "\n".join(footer_lines)
IssuesFooter ==
    Join(<< << Lit("## Recommended Next Steps", 4) >>,
            << >>,
            << Lit("Use this file together with the subject-specific files to investigate flagged issues in detail. Upload all generated markdown files to NotebookLM or Gemini Gems and ask questions like:", 28) >>,
            << >>,
            << Lit("- \"What are the critical issues on this system?\"", 9) >>,
            << Lit("- \"Explain the SELinux denials and suggest fixes\"", 8) >>,
            << Lit("- \"Is the storage healthy? Any signs of disk failure?\"", 10) >>,
            << Lit("- \"Are there any security concerns based on the audit log?\"", 11) >>,
            << Lit("- \"What services are failing and why?\"", 7) >>,
            << Lit("- \"Compare this system config against RHEL best practices\"", 9) >>,
            << >> >>, << NL >>)

\* content_word_budget = MAX_WORDS_PER_FILE - header_words - summary_words
\*                       - footer_words - truncation_notice_words
IssuesBudget(header, summary, footer) ==
    MAX_WORDS_PER_FILE - count_words(header) - count_words(summary)
        - count_words(footer) - truncation_notice_words

\* if content_words > content_word_budget: main_content, _ = truncate_to_word_limit(...)
\* return header + summary + main_content + footer
AssembleIssues(header, summary, main_content, footer) ==
    LET content_word_budget == IssuesBudget(header, summary, footer)
        cut == IF count_words(main_content) > content_word_budget
               THEN truncate_to_word_limit(main_content, content_word_budget).text
               ELSE main_content
    IN  header \o summary \o cut \o footer

\* def build_issues_md(sos_root), with the registry ISSUE_CHECKS = checks
build_issues_md(root, checks) ==
    LET ran == RunChecks(root, checks, 1)
    IN  [escaped |-> ran.escaped,
         triggered_checks |-> ran.triggered,
         clean_checks |-> ran.clean,
         text |-> IF ran.escaped THEN << >>
                  ELSE AssembleIssues(IssuesHeader(root),
                                      IssuesSummary(ran.triggered, ran.clean),
                                      IssuesDetails(ran.triggered),
                                      IssuesFooter)]


----------------------------------------------------------------------------
(* preproc-sos.py: build_issues_md, the copy that the script defines and runs *)

\* display_content = content
\* if "filter" in check_def:
\*     try: filtered = check_def["filter"](content.splitlines())
\*          display_content = "\n".join(filtered) if filtered else content
\*     except Exception: display_content = content
ScriptDisplayContent(check_def, text) ==
    IF "filter" \in DOMAIN check_def
    THEN IF FilterRaises(check_def, splitlines(text)) THEN text
         ELSE LET filtered == FilterValue(check_def, splitlines(text))
              IN  IF filtered # << >> THEN Join(filtered, << NL >>) ELSE text
    ELSE text

\* the loop "for check_def in ISSUE_CHECKS" of the script, run on checks[i..]:
\* the triggered checks with what their sections display (issues_found is
\* their number), clean_checks, and whether an exception left the loop
RECURSIVE ScriptRunChecks(_, _, _)
ScriptRunChecks(root, checks, i) ==
    IF i > Len(checks) THEN [triggered |-> << >>, clean |-> << >>, escaped |-> FALSE]
    ELSE LET text == read_file_safe(JoinPath(root, checks[i].source), LOG_MAX_LINES)
             triggered == TryCheck(checks[i], text)
             rest == ScriptRunChecks(root, checks, i + 1)
         IN  IF SourceMissing(text) THEN rest
             ELSE IF triggered.escaped
             THEN [triggered |-> << >>, clean |-> << >>, escaped |-> TRUE]
             ELSE IF ~triggered.value
             THEN [rest EXCEPT !.clean = << checks[i].name >> \o @]
             ELSE [rest EXCEPT !.triggered =
                      << [check_def |-> checks[i],
                          display_content |-> ScriptDisplayContent(checks[i], text)] >> \o @]

\* footer = "\n".join(footer_lines): the summary, then the next steps
ScriptIssuesFooter(issues_found, clean_checks_) ==
    Join(<< << Lit("## Summary", 2) >>,
            << >>,
            << Lit("- **Issues flagged:**", 3), SP, Num(issues_found) >>,
            << Lit("- **Checks passed:**", 3), SP, Num(Len(clean_checks_)) >>,
            << >> >>
         \o (IF clean_checks_ # << >>
             THEN << << Lit("### Clean Checks (no issues detected)", 6) >>, << >> >>
                    \o [i \in DOMAIN clean_checks_ |->
                            << Lit("-", 1), SP >> \o clean_checks_[i]]
                    \o << << >> >>
             ELSE << >>)
         \o << << Lit("---", 1) >>, << >> >>, << NL >>)
        \o << NL >> \o IssuesFooter

\* def build_issues_md(sos_root) of preproc-sos.py: the header and the sections
\* are written as in builders.py, the summary stands in the footer, and the
\* budget leaves out header and footer:
\* return header + main_content + footer
script_build_issues_md(root, checks) ==
    LET ran == ScriptRunChecks(root, checks, 1)
    IN  [escaped |-> ran.escaped,
         triggered_checks |-> ran.triggered,
         clean_checks |-> ran.clean,
         text |-> IF ran.escaped THEN << >>
                  ELSE AssembleIssues(IssuesHeader(root), << >>,
                                      IssuesDetails(ran.triggered),
                                      ScriptIssuesFooter(Len(ran.triggered), ran.clean))]
----------------------------------------------------------------------------
(* Inputs *)

MaxLen == 5        \* truncate_to_word_limit: longest content, in tokens
MaxWords == 3      \* truncate_to_word_limit: largest max_words tried
MaxReadLines == 3   \* read_file_safe: most terminated lines in the file read
MaxEntries == 2     \* resolve_paths: most entries of file_list and of glob_patterns
MaxFileLines == 2  \* build_subject_md: most lines in a file of the tree
MaxLogLines == 300  \* build_issues_md: most lines of the audit log
MaxNameLen == 5     \* heading_anchor: longest name, in characters

A == Lit("a", 1)                    \* one letter
W2 == Lit("w w", 2)                 \* two words on one line
Words(n) == Lit("w .. w", n)        \* n words on one line

TruncAlphabet == {A, W2, SP, NL, CR}

RECURSIVE SeqsUpTo(_, _)
SeqsUpTo(S, n) ==
    IF n = 0 THEN {<< >>}
    ELSE LET shorter == SeqsUpTo(S, n - 1)
         IN  shorter \cup {Append(s, x) : s \in {t \in shorter : Len(t) = n - 1}, x \in S}

TruncContents == SeqsUpTo(TruncAlphabet, MaxLen)
TruncLimits == (0 - 1) .. MaxWords

\* the files of the tree read by build_subject_md: up to MaxFileLines lines,
\* each empty, short or nearly as long as the word budget
FileLines == { << NL >>, << Words(200), NL >>, << Words(498950), NL >> }
FileContents == {Concat(ls) : ls \in SeqsUpTo(FileLines, MaxFileLines)}
FileStates == {Absent, Unreadable} \cup {File(d) : d \in FileContents}

SubjectTrees ==
    {[p \in {<<"etc">>, <<"etc", "hosts">>, <<"etc", "resolv.conf">>} |->
        IF p = <<"etc">> THEN Dir ELSE IF p = <<"etc", "hosts">> THEN h ELSE r] :
     h \in FileStates, r \in FileStates}

\* subject definitions shaped like the entries of SUBJECTS
SubjectTitles == { << Lit("Networking", 1) >>, << Words(30) >> }
SubjectFiles == { << <<"etc", "hosts">> >>, << <<"etc">> >>, << <<"etc", "hostname">> >> }
SubjectGlobs == { << >>, << <<"etc", "*">> >> }
SubjectDefs ==
    LET base == [title : SubjectTitles,
                 description : { << Lit("Network configuration and state.", 4) >> },
                 files : SubjectFiles,
                 globs : SubjectGlobs]
    IN  base \cup {[key \in DOMAIN d \cup {"max_lines"} |->
                        IF key = "max_lines" THEN 1 ELSE d[key]] : d \in base}

\* the registry: three checks named as in ISSUE_CHECKS; the first two take every
\* shape of check and filter, the third is "lambda content: True" without filter
CheckNames ==
    << Chars(<< "F", "a", "i", "l", "e", "d", " ", "S", "y", "s", "t", "e", "m", "d", " ", "U", "n", "i", "t", "s" >>),
       Chars(<< "S", "E", "L", "i", "n", "u", "x", " ", "D", "e", "n", "i", "a", "l", "s", " ", "i", "n", " ", "A", "u", "d", "i", "t", " ", "L", "o", "g" >>),
       Chars(<< "K", "e", "r", "n", "e", "l", " ", "E", "r", "r", "o", "r", "s", " ", "/", " ", "P", "a", "n", "i", "c", "s", " ", "/", " ", "O", "o", "p", "s", " ", "i", "n", " ", "d", "m", "e", "s", "g" >>) >>
CheckSources ==
    << <<"sos_commands", "systemd", "systemctl_list-units_--failed">>,
       <<"var", "log", "audit", "audit.log">>,
       <<"sos_commands", "kernel", "dmesg">> >>
CheckDescriptions ==
    << << Lit("Services that have failed and may need attention.", 8) >>,
       << Lit("SELinux AVC denials that may indicate policy issues.", 8) >>,
       << Lit("Kernel-level errors, panics, or warnings from dmesg.", 7) >> >>
FilterTerms == << Lit("lines containing 'denied' or 'avc:'", 5) >>

CheckBase(i, check) ==
    [name |-> CheckNames[i], source |-> CheckSources[i],
     description |-> CheckDescriptions[i], check |-> check]
WithFilter(d, filter) ==
    [key \in DOMAIN d \cup {"filter"} |-> IF key = "filter" THEN filter ELSE d[key]]
WithTerms(d) ==
    [key \in DOMAIN d \cup {"filter_terms"} |->
        IF key = "filter_terms" THEN FilterTerms ELSE d[key]]

CheckDefs(i) ==
    {CheckBase(i, c) : c \in {"always", "never", "raises"}}
    \cup {WithTerms(WithFilter(CheckBase(i, c), "all")) : c \in {"always", "never", "raises"}}
    \cup {WithTerms(WithFilter(CheckBase(i, "always"), f)) : f \in {"last", "none", "raises"}}
    \cup {WithFilter(CheckBase(i, "always"), "none")}

SmallLog == << Words(3), NL, Lit("x", 1), SP, Lit("y", 1), NL >>
BigLog == << Words(200), NL, Words(498950), NL >>
SourceStates == {Absent, Unreadable, File(SmallLog), File(BigLog)}

SmallIdentity == File(<< Lit("Red Hat Enterprise Linux release 9.3 (Plow)", 7), NL >>)
HugeIdentity == File(<< Words(499001), NL >>)

IssuePaths == Range(QuickFiles) \cup Range(CheckSources)

\* a tree from the states of the four quick files and of the three sources
IssueTree(quick, sources) ==
    [p \in IssuePaths |->
        IF \E i \in DOMAIN QuickFiles : QuickFiles[i] = p
        THEN quick[CHOOSE i \in DOMAIN QuickFiles : QuickFiles[i] = p]
        ELSE sources[CHOOSE i \in DOMAIN CheckSources : CheckSources[i] = p]]

DefaultQuick == << SmallIdentity, SmallIdentity, Absent, Absent >>

\* every shape of the first two checks and of their sources, with a small header
CheckInputs ==
    \E c1 \in CheckDefs(1), c2 \in CheckDefs(2),
       s1 \in SourceStates, s2 \in SourceStates, s3 \in {Absent, File(SmallLog)} :
        /\ issue_checks = << c1, c2, CheckBase(3, "always") >>
        /\ sos = IssueTree(DefaultQuick, << s1, s2, s3 >>)

\* every state of the quick files, with plain checks
IdentityInputs ==
    \E q1 \in {Absent, SmallIdentity, HugeIdentity},
       q2 \in {Absent, SmallIdentity},
       q3 \in {Absent, File(<< >>), File(<< NL >>)},
       q4 \in {Absent, Unreadable},
       s1 \in {File(SmallLog), File(BigLog)} :
        /\ issue_checks = << CheckBase(1, "always"), CheckBase(2, "never"),
                             CheckBase(3, "always") >>
        /\ sos = IssueTree(<< q1, q2, q3, q4 >>, << s1, File(SmallLog), Absent >>)

NoResult == [text |-> << >>, was_truncated |-> FALSE]

----------------------------------------------------------------------------
(* Specifications *)

vars == << pc, content, max_words, result, sos, subject_def, subject_md,
           issue_checks, triggered_checks, clean_checks, issues_md,
           args, returned, now, set_order, first_run,
           stdin, output_dir, events, exit_status >>

truncVars == << content, max_words, result >>
subjectVars == << subject_def, subject_md >>
issuesVars == << issue_checks, triggered_checks, clean_checks, issues_md >>
utilsVars == << args, returned >>
mainVars == << stdin, output_dir, events, exit_status >>
envVars == << now, set_order, first_run, stdin, output_dir, events, exit_status >>

\* the values of the variables a call does not use
TruncIdle == content = << >> /\ max_words = 0 /\ result = NoResult
SubjectIdle == subject_def = << >> /\ subject_md = << >>
IssuesIdle ==
    issue_checks = << >> /\ triggered_checks = << >> /\ clean_checks = << >>
        /\ issues_md = << >>

UtilsIdle == args = << >> /\ returned = << >>

\* the values datetime.now().strftime('%Y-%m-%d %H:%M:%S') takes, in order
Clocks == << "2025-01-01 00:00:00", "2025-01-01 00:00:01" >>

\* a single run at the first clock value
NoOutput == [kind |-> "absent", same |-> FALSE, items |-> {}]
MainIdle == stdin = << >> /\ output_dir = NoOutput /\ events = << >> /\ exit_status = None
EnvIdle == now = Clocks[1] /\ set_order = PathOrder /\ first_run = << >> /\ MainIdle

\* SpecTrunc: one call of truncate_to_word_limit(content, max_words)
InitTrunc ==
    /\ pc = "call_truncate"
    /\ content \in TruncContents
    /\ max_words \in TruncLimits
    /\ result = NoResult
    /\ sos = << >>
    /\ SubjectIdle
    /\ IssuesIdle
    /\ UtilsIdle
    /\ EnvIdle

Truncate ==
    /\ pc = "call_truncate"
    /\ result' = truncate_to_word_limit(content, max_words)
    /\ pc' = "truncate_returned"
    /\ UNCHANGED << content, max_words, sos >>
    /\ UNCHANGED subjectVars
    /\ UNCHANGED issuesVars
    /\ UNCHANGED utilsVars
    /\ UNCHANGED envVars

NextTrunc == Truncate

SpecTrunc == InitTrunc /\ [][NextTrunc]_vars

\* SpecBuilders: one call of build_subject_md(sos_root, subject_def) or of
\* build_issues_md(sos_root) on a sosreport tree
InitSubject ==
    /\ pc = "call_build_subject"
    /\ sos \in SubjectTrees
    /\ subject_def \in SubjectDefs
    /\ subject_md = << >>
    /\ TruncIdle
    /\ IssuesIdle
    /\ UtilsIdle
    /\ EnvIdle

InitIssues ==
    /\ pc = "call_build_issues"
    /\ (CheckInputs \/ IdentityInputs)
    /\ triggered_checks = << >>
    /\ clean_checks = << >>
    /\ issues_md = << >>
    /\ TruncIdle
    /\ SubjectIdle
    /\ UtilsIdle
    /\ EnvIdle

InitBuilders == InitSubject \/ InitIssues

BuildSubject ==
    /\ pc = "call_build_subject"
    /\ subject_md' = build_subject_md(sos_root, subject_def)
    /\ pc' = "build_subject_returned"
    /\ UNCHANGED << sos, subject_def >>
    /\ UNCHANGED truncVars
    /\ UNCHANGED issuesVars
    /\ UNCHANGED utilsVars
    /\ UNCHANGED envVars

BuildIssues ==
    /\ pc = "call_build_issues"
    /\ LET built == build_issues_md(sos_root, issue_checks)
       IN  /\ triggered_checks' = built.triggered_checks
           /\ clean_checks' = built.clean_checks
           /\ issues_md' = built.text
           /\ pc' = IF built.escaped THEN "build_issues_raised"
                    ELSE "build_issues_returned"
    /\ UNCHANGED << sos, issue_checks >>
    /\ UNCHANGED truncVars
    /\ UNCHANGED subjectVars
    /\ UNCHANGED utilsVars
    /\ UNCHANGED envVars

NextBuilders == BuildSubject \/ BuildIssues

SpecBuilders == InitBuilders /\ [][NextBuilders]_vars


----------------------------------------------------------------------------
(* SpecRead: one call of read_file_safe(filepath, max_lines) *)

\* the lines of the file read: two lines told apart by their text, and a line
\* with the terminator "\r\n"
ReadLines ==
    { << Lit("a", 1), NL >>, << Lit("b c", 2), NL >>, << Lit("d", 1), CR, NL >> }
\* a last line without terminator
ReadTails == { << >>, << Lit("z", 1) >> }
ReadContents ==
    {Concat(ls) \o t : ls \in SeqsUpTo(ReadLines, MaxReadLines), t \in ReadTails}
ReadStates == {Absent, Dir, Unreadable} \cup {File(d) : d \in ReadContents}
ReadPath == << "var", "log", "messages" >>
ReadTrees == {[p \in {ReadPath} |-> st] : st \in ReadStates}
\* the path of the tree, and a path that is not in it
ReadFilepaths ==
    {JoinPath(sos_root, ReadPath), JoinPath(sos_root, << "var", "log", "secure" >>)}
\* max_lines from 0 up to one more than the longest file has lines
ReadCaps == 0 .. MaxReadLines + 2

InitRead ==
    /\ pc = "call_read_file_safe"
    /\ sos \in ReadTrees
    /\ args \in [filepath : ReadFilepaths, max_lines : ReadCaps]
    /\ returned = << >>
    /\ TruncIdle
    /\ SubjectIdle
    /\ IssuesIdle
    /\ EnvIdle

ReadFileSafe ==
    /\ pc = "call_read_file_safe"
    /\ returned' = read_file_safe(args.filepath, args.max_lines)
    /\ pc' = IF returned' = Raised THEN "read_file_safe_raised"
             ELSE "read_file_safe_returned"
    /\ UNCHANGED << sos, args >>
    /\ UNCHANGED truncVars
    /\ UNCHANGED subjectVars
    /\ UNCHANGED issuesVars
    /\ UNCHANGED envVars

NextRead == ReadFileSafe

SpecRead == InitRead /\ [][NextRead]_vars


----------------------------------------------------------------------------
(* SpecResolve: a call of resolve_paths(sos_root, file_list, glob_patterns) and
   a second call on the same tree with the entries rearranged *)

AnyFile == File(<< Lit("x", 1), NL >>)

\* trees under etc: a file, a directory that may be missing, empty or hold a
\* file, and a file whose name continues the name of the directory
ResolveTrees ==
    {[p \in Range(PathOrder) |->
        CASE p = <<"etc">> -> Dir
          [] p = <<"etc", "hosts">> -> hosts
          [] p = <<"etc", "resolv.conf">> -> Absent
          [] p = <<"etc", "sysconfig">> -> sysconfig
          [] p = <<"etc", "sysconfig.bak">> -> bak
          [] p = <<"etc", "sysconfig", "network">> ->
                IF sysconfig = Dir THEN network ELSE Absent] :
     hosts \in {Absent, AnyFile}, sysconfig \in {Absent, Dir, AnyFile},
     bak \in {Unreadable}, network \in {Absent, AnyFile}}

\* explicit paths: a directory, a file, a path that is never in the tree
ResolveFiles == { <<"etc">>, <<"etc", "hosts">>, <<"etc", "hostname">> }
\* glob patterns, one of them matching nothing
ResolveGlobs ==
    { <<"etc", "*">>, <<"etc", "*", "network">>, <<"usr", "*">> }

\* a list with its first two entries exchanged, and with its first entry moved
\* to the end: every order of a list comes from these two
SwapFirst(s) ==
    IF Len(s) < 2 THEN s ELSE << s[2], s[1] >> \o SubSeq(s, 3, Len(s))
Rotate(s) == IF s = << >> THEN s ELSE Tail(s) \o << s[1] >>

\* the same entries in another order or repeated, the explicit paths possibly
\* repeated among the patterns
Rearranged(call) ==
    {[file_list |-> fl, glob_patterns |-> gp] :
        fl \in {call.file_list, SwapFirst(call.file_list), Rotate(call.file_list),
                call.file_list \o call.file_list},
        gp \in {call.glob_patterns, SwapFirst(call.glob_patterns),
                Rotate(call.glob_patterns),
                call.glob_patterns \o call.glob_patterns,
                call.glob_patterns \o call.file_list}}

InitResolve ==
    /\ pc = "call_resolve_paths"
    /\ sos \in ResolveTrees
    /\ args \in [file_list : SeqsUpTo(ResolveFiles, MaxEntries),
                 glob_patterns : SeqsUpTo(ResolveGlobs, MaxEntries)]
    /\ returned = << >>
    /\ TruncIdle
    /\ SubjectIdle
    /\ IssuesIdle
    /\ EnvIdle

ResolvePaths ==
    /\ pc = "call_resolve_paths"
    /\ returned' = resolve_paths(sos_root, args.file_list, args.glob_patterns)
    /\ pc' = "resolve_paths_returned"
    /\ UNCHANGED << sos, args >>
    /\ UNCHANGED truncVars
    /\ UNCHANGED subjectVars
    /\ UNCHANGED issuesVars
    /\ UNCHANGED envVars

\* a further call on the unchanged tree, with the entries rearranged
ResolveAgain ==
    /\ pc = "resolve_paths_returned"
    /\ args' \in Rearranged(args)
    /\ returned' = resolve_paths(sos_root, args'.file_list, args'.glob_patterns)
    /\ pc' = "resolve_paths_returned_again"
    /\ UNCHANGED sos
    /\ UNCHANGED truncVars
    /\ UNCHANGED subjectVars
    /\ UNCHANGED issuesVars
    /\ UNCHANGED envVars

NextResolve == ResolvePaths \/ ResolveAgain

SpecResolve == InitResolve /\ [][NextResolve]_vars

----------------------------------------------------------------------------
(* SpecRerun: a builder is run, and run a second time on the unchanged tree,
   in a process with its own set order and at the same or a later clock value *)

\* the set orders of the two processes
SetOrders ==
    { PathOrder, [i \in 1 .. Len(PathOrder) |-> PathOrder[Len(PathOrder) + 1 - i]] }

RerunStates == {Absent, Unreadable, File(<< NL >>), File(<< Words(200), NL >>)}
RerunTrees ==
    {[p \in {<<"etc">>, <<"etc", "hosts">>, <<"etc", "resolv.conf">>} |->
        IF p = <<"etc">> THEN Dir ELSE IF p = <<"etc", "hosts">> THEN h ELSE r] :
     h \in RerunStates, r \in RerunStates}

\* registries and sources for the two runs of build_issues_md
RerunInputs ==
    \E c1 \in CheckDefs(1), s1 \in SourceStates :
        /\ issue_checks = << c1, CheckBase(2, "always"), CheckBase(3, "never") >>
        /\ sos = IssueTree(DefaultQuick, << s1, File(SmallLog), Absent >>)

InitRerun ==
    /\ \/ /\ pc = "call_build_subject"
          /\ sos \in RerunTrees
          /\ subject_def \in SubjectDefs
          /\ subject_md = << >>
          /\ IssuesIdle
       \/ /\ pc = "call_build_issues"
          /\ RerunInputs
          /\ triggered_checks = << >>
          /\ clean_checks = << >>
          /\ issues_md = << >>
          /\ SubjectIdle
    /\ TruncIdle
    /\ UtilsIdle
    /\ now = Clocks[1]
    /\ set_order \in SetOrders
    /\ first_run = << >>
    /\ MainIdle

\* between the runs: the first output is kept for comparison, and the second
\* process starts with its own set order, the clock mocked (same value) or
\* advanced; the second run is BuildSubject or BuildIssues again
StartSecondRun ==
    /\ pc \in {"build_subject_returned", "build_issues_returned"}
    /\ DOMAIN first_run = {}
    /\ first_run' = [now |-> now, set_order |-> set_order,
                     md |-> IF pc = "build_subject_returned" THEN subject_md
                            ELSE issues_md]
    /\ now' \in {now, Clocks[2]}
    /\ set_order' \in SetOrders
    /\ pc' = IF pc = "build_subject_returned" THEN "call_build_subject"
             ELSE "call_build_issues"
    /\ UNCHANGED sos
    /\ UNCHANGED truncVars
    /\ UNCHANGED subjectVars
    /\ UNCHANGED issuesVars
    /\ UNCHANGED utilsVars
    /\ UNCHANGED mainVars

NextRerun == BuildSubject \/ BuildIssues \/ StartSecondRun

SpecRerun == InitRerun /\ [][NextRerun]_vars


----------------------------------------------------------------------------
(* build_issues_md with the first two entries of ISSUE_CHECKS *)

FailedSystemdUnits == CheckBase(1, "failed_units")
SELinuxDenials == WithTerms(WithFilter(CheckBase(2, "selinux"), "selinux"))
ISSUE_CHECKS == << FailedSystemdUnits, SELinuxDenials >>

\* line i of an audit log.  With period p > 0 every p-th line is a record that
\* mentions no denial; the other lines mention one as "avc:", "AVC:" or
\* "Denied", in turn.  Every line carries its number.
AuditLine(i, period, indent) ==
    (IF indent THEN << SP >> ELSE << >>)
        \o (IF period > 0 /\ i % period = 0 THEN << Lit("type=SYSCALL", 1) >>
            ELSE IF i % 3 = 0 THEN Chars(<< "a", "v", "c", ":" >>)
            ELSE IF i % 3 = 1 THEN Chars(<< "A", "V", "C", ":" >>)
            ELSE Chars(<< "D", "e", "n", "i", "e", "d" >>))
        \o << SP, Num(i) >>

AuditLog(n, period, indent) ==
    Join([i \in 1 .. n |-> AuditLine(i, period, indent)], << NL >>)
        \o (IF n > 0 THEN << NL >> ELSE << >>)

AuditSizes ==
    {0, 1, SELINUX_KEPT_LINES - 1, SELINUX_KEPT_LINES, SELINUX_KEPT_LINES + 1, MaxLogLines}
AuditPeriods == {0, 1, 2, 6}
AuditStates ==
    {Absent, Unreadable, File(LongLogMark)}
        \cup {File(AuditLog(n, p, ind)) : n \in AuditSizes, p \in AuditPeriods, ind \in BOOLEAN}

\* the audit logs of at most one line
ShortAuditStates ==
    {Absent, Unreadable}
        \cup {File(AuditLog(n, p, ind)) : n \in {0, 1}, p \in AuditPeriods, ind \in BOOLEAN}

FailedUnit == << Lit("foo.service loaded failed failed Foo", 5) >>
UnitsContents ==
    { << >>,
      << SP, NL >>,
      Chars(NoUnitsListed) \o << Lit(".", 1) >>,
      FailedUnit \o << NL, NL >> \o Chars(NoUnitsListed) \o << Lit(".", 1), NL >>,
      Chars(<< "0", " ", "L", "o", "a", "d", "e", "d", " ", "u", "n", "i", "t", "s", " ",
               "l", "i", "s", "t", "e", "d" >>) \o << NL >>,
      FailedUnit,
      FailedUnit \o << NL >>,
      << SP, SP >> \o FailedUnit \o << CR, NL, NL >> }
UnitsStates == {Absent, Unreadable} \cup {File(d) : d \in UnitsContents}

InitRegistry ==
    /\ pc = "call_build_issues"
    /\ issue_checks = ISSUE_CHECKS
    /\ \E units \in UnitsStates, audit \in AuditStates :
          /\ units \in {Absent, File(FailedUnit)} \/ audit \in ShortAuditStates
          /\ sos = IssueTree(DefaultQuick, << units, audit, Absent >>)
    /\ triggered_checks = << >>
    /\ clean_checks = << >>
    /\ issues_md = << >>
    /\ TruncIdle
    /\ SubjectIdle
    /\ UtilsIdle
    /\ EnvIdle

NextRegistry == BuildIssues

SpecRegistry == InitRegistry /\ [][NextRegistry]_vars

----------------------------------------------------------------------------
(* is_valid_sos_directory on the directories of a tree *)

\* the entries directly under sos_root: the indicators in present, as the
\* directories or plain files they are in a sosreport, "sos_commands" as a
\* plain file when commands_is_file, and a directory "boot" that is no indicator
ValidateTree(present, commands_is_file) ==
    [p \in {<< sos_indicators[i] >> : i \in DOMAIN sos_indicators} \cup {<< "boot" >>} |->
        IF p = << "boot" >> THEN Dir
        ELSE IF p[1] \notin present THEN Absent
        ELSE IF p[1] = "sos_commands" THEN (IF commands_is_file THEN AnyFile ELSE Dir)
        ELSE IF p[1] \in {"etc", "proc", "var", "sos_logs", "sos_reports"} THEN Dir
        ELSE AnyFile]
ValidateTrees ==
    {ValidateTree(present, commands_is_file) :
        present \in SUBSET Range(sos_indicators), commands_is_file \in BOOLEAN}

\* the directory given on the command line, and a directory inside it
ValidatePaths == {sos_root, JoinPath(sos_root, << "etc" >>)}

InitValidate ==
    /\ pc = "call_is_valid_sos_directory"
    /\ sos \in ValidateTrees
    /\ args \in [path : ValidatePaths]
    /\ returned = << >>
    /\ TruncIdle
    /\ SubjectIdle
    /\ IssuesIdle
    /\ EnvIdle

IsValidSosDirectory ==
    /\ pc = "call_is_valid_sos_directory"
    /\ returned' = is_valid_sos_directory(args.path)
    /\ pc' = "is_valid_sos_directory_returned"
    /\ UNCHANGED << sos, args >>
    /\ UNCHANGED truncVars
    /\ UNCHANGED subjectVars
    /\ UNCHANGED issuesVars
    /\ UNCHANGED envVars

NextValidate == IsValidSosDirectory

SpecValidate == InitValidate /\ [][NextValidate]_vars

----------------------------------------------------------------------------
(* heading_anchor on short names *)

\* a capital and a small letter, a digit, the space, the hyphen, a character
\* that is removed, and a capital letter without a small form
NameAlphabet == {"A", "b", "7", " ", "-", "_", "U+2102"}
Names == {Chars(cs) : cs \in SeqsUpTo(NameAlphabet, MaxNameLen)}

InitAnchor ==
    /\ pc = "call_heading_anchor"
    /\ sos = << >>
    /\ args \in [name : Names]
    /\ returned = << >>
    /\ TruncIdle
    /\ SubjectIdle
    /\ IssuesIdle
    /\ EnvIdle

HeadingAnchor ==
    /\ pc = "call_heading_anchor"
    /\ returned' = heading_anchor(args.name)
    /\ pc' = "heading_anchor_returned"
    /\ UNCHANGED << sos, args >>
    /\ UNCHANGED truncVars
    /\ UNCHANGED subjectVars
    /\ UNCHANGED issuesVars
    /\ UNCHANGED envVars

NextAnchor == HeadingAnchor

SpecAnchor == InitAnchor /\ [][NextAnchor]_vars

----------------------------------------------------------------------------
(* issue_checks.py: the names of ISSUE_CHECKS and the anchors of their links *)

\* the "name" of each entry of ISSUE_CHECKS, in registry order, character by
\* character
RegistryNames ==
    << \* l.22: Failed Systemd Units
       << "F", "a", "i", "l", "e", "d", " ", "S", "y", "s", "t", "e", "m", "d", " ", "U", "n", "i", "t", "s" >>,
       \* l.28: SELinux Denials in Audit Log
       << "S", "E", "L", "i", "n", "u", "x", " ", "D", "e", "n", "i", "a", "l", "s", " ", "i", "n", " ", "A", "u", "d", "i", "t", " ", "L", "o", "g" >>,
       \* l.36: OOM Killer Events
       << "O", "O", "M", " ", "K", "i", "l", "l", "e", "r", " ", "E", "v", "e", "n", "t", "s" >>,
       \* l.44: Kernel Errors / Panics / Oops in dmesg
       << "K", "e", "r", "n", "e", "l", " ", "E", "r", "r", "o", "r", "s", " ", "/", " ", "P", "a", "n", "i", "c", "s", " ", "/", " ", "O", "o", "p", "s", " ", "i", "n", " ", "d", "m", "e", "s", "g" >>,
       \* l.52: Filesystem Errors in Logs
       << "F", "i", "l", "e", "s", "y", "s", "t", "e", "m", " ", "E", "r", "r", "o", "r", "s", " ", "i", "n", " ", "L", "o", "g", "s" >>,
       \* l.60: Disk Space Issues
       << "D", "i", "s", "k", " ", "S", "p", "a", "c", "e", " ", "I", "s", "s", "u", "e", "s" >>,
       \* l.68: Network Errors / Drops
       << "N", "e", "t", "w", "o", "r", "k", " ", "E", "r", "r", "o", "r", "s", " ", "/", " ", "D", "r", "o", "p", "s" >>,
       \* l.74: Multipath Issues
       << "M", "u", "l", "t", "i", "p", "a", "t", "h", " ", "I", "s", "s", "u", "e", "s" >>,
       \* l.80: Core Dumps / Segfaults in Logs
       << "C", "o", "r", "e", " ", "D", "u", "m", "p", "s", " ", "/", " ", "S", "e", "g", "f", "a", "u", "l", "t", "s", " ", "i", "n", " ", "L", "o", "g", "s" >>,
       \* l.88: Subscription / Entitlement Warnings
       << "S", "u", "b", "s", "c", "r", "i", "p", "t", "i", "o", "n", " ", "/", " ", "E", "n", "t", "i", "t", "l", "e", "m", "e", "n", "t", " ", "W", "a", "r", "n", "i", "n", "g", "s" >>,
       \* l.94: NTP / Time Sync Issues
       << "N", "T", "P", " ", "/", " ", "T", "i", "m", "e", " ", "S", "y", "n", "c", " ", "I", "s", "s", "u", "e", "s" >>,
       \* l.100: Kdump / Crash Configuration
       << "K", "d", "u", "m", "p", " ", "/", " ", "C", "r", "a", "s", "h", " ", "C", "o", "n", "f", "i", "g", "u", "r", "a", "t", "i", "o", "n" >>,
       \* l.106: High Zombie / Defunct Processes
       << "H", "i", "g", "h", " ", "Z", "o", "m", "b", "i", "e", " ", "/", " ", "D", "e", "f", "u", "n", "c", "t", " ", "P", "r", "o", "c", "e", "s", "s", "e", "s" >>,
       \* l.114: Hardware Errors (MCE)
       << "H", "a", "r", "d", "w", "a", "r", "e", " ", "E", "r", "r", "o", "r", "s", " ", "(", "M", "C", "E", ")" >>,
       \* l.120: Swap Usage
       << "S", "w", "a", "p", " ", "U", "s", "a", "g", "e" >>,
       \* l.126: Authentication Failures
       << "A", "u", "t", "h", "e", "n", "t", "i", "c", "a", "t", "i", "o", "n", " ", "F", "a", "i", "l", "u", "r", "e", "s" >> >>

\* the name of entry 1 given to the last entry as well
RegistryNameShared(i) == Chars(RegistryNames[IF i = Len(RegistryNames) THEN 1 ELSE i])

\* ISSUE_CHECKS[i - 1]["name"]
RegistryName(i) == Chars(RegistryNames[i])

\* two entries of the registry, picked by their positions
InitLinks ==
    /\ pc = "call_summary_links"
    /\ sos = << >>
    /\ args \in [first : DOMAIN RegistryNames, second : DOMAIN RegistryNames]
    /\ returned = << >>
    /\ TruncIdle
    /\ SubjectIdle
    /\ IssuesIdle
    /\ EnvIdle

\* build_issues_md, the links of the summary: anchor = heading_anchor(check_def["name"]),
\* for the two entries picked
SummaryLinks ==
    /\ pc = "call_summary_links"
    /\ returned' = << heading_anchor(RegistryName(args.first)),
                      heading_anchor(RegistryName(args.second)) >>
    /\ pc' = "summary_links_returned"
    /\ UNCHANGED << sos, args >>
    /\ UNCHANGED truncVars
    /\ UNCHANGED subjectVars
    /\ UNCHANGED issuesVars
    /\ UNCHANGED envVars

NextLinks == SummaryLinks

SpecLinks == InitLinks /\ [][NextLinks]_vars

----------------------------------------------------------------------------
(* preproc-sos.py: confirm_prompt and main *)

\* subjects.py is not among the sources.  SUBJECTS is an ordered mapping of
\* subject id -> definition, so its ids are distinct; a catalog is written as
\* the sequence of its ids in insertion order.
Catalogs ==
    { << >>, << "networking" >>, << "networking", "storage" >>,
      << "storage", "networking" >>, << "security", "networking", "storage" >> }

\* SUBJECTS.items() walked from the last entry to the first
ItemsReversed(subjects) == [i \in DOMAIN subjects |-> subjects[Len(subjects) + 1 - i]]

\* SUBJECTS.items(): the entries in insertion order
items(subjects) == subjects

\* f"{key}.md" and "00_issues_investigation.md"
SubjectFile(key) == key \o ".md"
IssuesFile == "00_issues_investigation.md"

\* sys.argv: the script alone, one argument, two arguments, two and an option
Argvs ==
    { << "preproc-sos.py" >>,
      << "preproc-sos.py", "sosreport-host" >>,
      << "preproc-sos.py", "sosreport-host", "out" >>,
      << "preproc-sos.py", "sosreport-host", "out", "--upload" >> }

\* the lines typed at the prompt, each without its newline; input() raises
\* EOFError when none is left
StdinLines ==
    { Chars(<< "y" >>), Chars(<< " ", "Y", "e", "s" >>), Chars(<< "n" >>),
      Chars(<< "N", "O" >>), << >>, Chars(<< "o", "k" >>) }
MaxStdin == 2
Stdins == SeqsUpTo(StdinLines, MaxStdin)

\* the path of sos_root as it is before the run: missing, a plain file, or a
\* directory with the indicators in present beneath it
MainTree(root, present) ==
    LET beneath == ValidateTree(present, FALSE)
    IN  [p \in DOMAIN beneath \cup {<< >>} |->
            IF p = << >> THEN root
            ELSE IF root.kind = "dir" THEN beneath[p] ELSE Absent]
MainTrees ==
    { MainTree(Absent, {}), MainTree(AnyFile, {}), MainTree(Dir, {}),
      MainTree(Dir, {"sos_commands", "etc", "proc"}),
      MainTree(Dir, {"etc", "proc", "var"}),
      MainTree(Dir, {"etc", "proc", "var", "version.txt"}) }

\* the path of output_dir as it is before the run: missing, a plain file, an
\* empty directory, a directory with a file, a directory with earlier reports,
\* or (same) the sosreport directory itself under this or another name
OutputStates ==
    { NoOutput,
      [kind |-> "file", same |-> FALSE, items |-> {}],
      [kind |-> "dir", same |-> FALSE, items |-> {}],
      [kind |-> "dir", same |-> FALSE, items |-> {"notes.txt"}],
      [kind |-> "dir", same |-> FALSE, items |-> {"networking.md", IssuesFile}],
      [kind |-> "dir", same |-> TRUE, items |-> {"boot", "etc", "proc", "var"}] }

InitMain ==
    /\ pc = "main"
    /\ sos \in MainTrees
    /\ args \in [argv : Argvs, SUBJECTS : Catalogs, stdin : Stdins, output_dir : OutputStates]
    /\ args.output_dir.same => isdir(sos_root)
    /\ stdin = args.stdin
    /\ output_dir = args.output_dir
    /\ events = << >>
    /\ exit_status = None
    /\ returned = << >>
    /\ TruncIdle
    /\ SubjectIdle
    /\ IssuesIdle
    /\ now = Clocks[1] /\ set_order = PathOrder /\ first_run = << >>

\* what main reads but never changes
mainFrame ==
    << content, max_words, result, sos, subject_def, subject_md, issue_checks,
       triggered_checks, clean_checks, issues_md, args, returned, now, set_order,
       first_run >>

\* sys.exit(status), or the end of the process by an exception nobody catches
\* (status 1)
SysExit(status) == pc' = "exited" /\ exit_status' = status

\* if len(sys.argv) < 3: ... sys.exit(1)
MainArguments ==
    /\ pc = "main"
    /\ IF Len(args.argv) < 3 THEN SysExit(1)
       ELSE pc' = "main_isdir" /\ UNCHANGED exit_status
    /\ UNCHANGED << stdin, output_dir, events >>
    /\ UNCHANGED mainFrame

\* if not os.path.isdir(sos_root): ... sys.exit(1)
MainSosDirectory ==
    /\ pc = "main_isdir"
    /\ IF ~isdir(sos_root) THEN SysExit(1)
       ELSE pc' = "main_validate" /\ UNCHANGED exit_status
    /\ UNCHANGED << stdin, output_dir, events >>
    /\ UNCHANGED mainFrame

\* is_valid, found_indicators = is_valid_sos_directory(sos_root)
\* if not is_valid: ... sys.exit(1)
MainValidate ==
    /\ pc = "main_validate"
    /\ IF ~is_valid_sos_directory(sos_root).is_valid THEN SysExit(1)
       ELSE pc' = "main_output_dir" /\ UNCHANGED exit_status
    /\ UNCHANGED << stdin, output_dir, events >>
    /\ UNCHANGED mainFrame

\* "Handle output directory", up to the call of confirm_prompt
MainOutputDirectory ==
    /\ pc = "main_output_dir"
    /\ IF output_dir.kind = "absent"
       THEN \* os.makedirs(output_dir, exist_ok=True); an OSError ends the run
            \/ /\ output_dir' = [output_dir EXCEPT !.kind = "dir"]
               /\ pc' = "main_generate"
               /\ UNCHANGED exit_status
            \/ SysExit(1) /\ UNCHANGED output_dir
       ELSE IF output_dir.kind = "dir"
       THEN /\ IF output_dir.same THEN SysExit(1)
               ELSE IF output_dir.items # {}
               THEN pc' = "confirm_prompt" /\ UNCHANGED exit_status
               ELSE pc' = "main_generate" /\ UNCHANGED exit_status
            /\ UNCHANGED output_dir
       ELSE SysExit(1) /\ UNCHANGED output_dir
    /\ UNCHANGED << stdin, events >>
    /\ UNCHANGED mainFrame

\* response = input(...).strip().lower()
Response(line) == lower(strip(line))

\* an empty answer taken for a yes
ConfirmsByDefault(response) ==
    response \in {Chars(<< "y" >>), Chars(<< "y", "e", "s" >>), << >>}

\* if response in ("y", "yes"): return True
Confirms(response) == response \in {Chars(<< "y" >>), Chars(<< "y", "e", "s" >>)}

\* if response in ("n", "no", ""): return False
Declines(response) == response \in {Chars(<< "n" >>), Chars(<< "n", "o" >>), << >>}

\* one turn of the loop of confirm_prompt, and what main does with its answer:
\* if not confirm_prompt(...): print("Aborted."); sys.exit(0)
ConfirmPrompt ==
    /\ pc = "confirm_prompt"
    /\ IF stdin = << >>
       THEN SysExit(1) /\ UNCHANGED stdin      \* EOFError
       ELSE /\ stdin' = Tail(stdin)
            /\ IF Confirms(Response(Head(stdin)))
               THEN pc' = "main_generate" /\ UNCHANGED exit_status
               ELSE IF Declines(Response(Head(stdin))) THEN SysExit(0)
               ELSE UNCHANGED << pc, exit_status >>
    /\ UNCHANGED << output_dir, events >>
    /\ UNCHANGED mainFrame

\* the number of subjects whose file has been written
SubjectsDone == Len(events) \div 2

\* for key, subject_def in SUBJECTS.items():
\*     md_content = build_subject_md(sos_root, subject_def)
MainBuildSubject ==
    /\ pc = "main_generate"
    /\ SubjectsDone < Len(args.SUBJECTS)
    /\ events' = Append(events, [call |-> "build_subject_md",
                                 of |-> items(args.SUBJECTS)[SubjectsDone + 1]])
    /\ pc' = "main_write_subject"
    /\ UNCHANGED << stdin, output_dir, exit_status >>
    /\ UNCHANGED mainFrame

\* with open(out_path, "w") as f: f.write(md_content); an OSError ends the run
MainWriteSubject ==
    /\ pc = "main_write_subject"
    /\ \/ /\ events' = Append(events, [call |-> "write",
                                       of |-> SubjectFile(events[Len(events)].of)])
          /\ output_dir' = [output_dir EXCEPT
                               !.items = @ \cup {SubjectFile(events[Len(events)].of)}]
          /\ pc' = "main_generate"
          /\ UNCHANGED exit_status
       \/ SysExit(1) /\ UNCHANGED << events, output_dir >>
    /\ UNCHANGED stdin
    /\ UNCHANGED mainFrame

\* issues_md = build_issues_md(sos_root), after the loop
MainBuildIssues ==
    /\ pc = "main_generate"
    /\ SubjectsDone = Len(args.SUBJECTS)
    /\ events' = Append(events, [call |-> "build_issues_md", of |-> IssuesFile])
    /\ pc' = "main_write_issues"
    /\ UNCHANGED << stdin, output_dir, exit_status >>
    /\ UNCHANGED mainFrame

\* with open(issues_path, "w") as f: f.write(issues_md); then main returns
MainWriteIssues ==
    /\ pc = "main_write_issues"
    /\ \/ /\ events' = Append(events, [call |-> "write", of |-> IssuesFile])
          /\ output_dir' = [output_dir EXCEPT !.items = @ \cup {IssuesFile}]
          /\ pc' = "main_returned"
          /\ exit_status' = 0
       \/ SysExit(1) /\ UNCHANGED << events, output_dir >>
    /\ UNCHANGED stdin
    /\ UNCHANGED mainFrame

NextMain ==
    \/ MainArguments
    \/ MainSosDirectory
    \/ MainValidate
    \/ MainOutputDirectory
    \/ ConfirmPrompt
    \/ MainBuildSubject
    \/ MainWriteSubject
    \/ MainBuildIssues
    \/ MainWriteIssues

SpecMain == InitMain /\ [][NextMain]_vars

----------------------------------------------------------------------------
(* SpecScript: one call of the build_issues_md of preproc-sos.py *)

InitScript ==
    /\ pc = "call_script_build_issues"
    /\ CheckInputs
    /\ triggered_checks = << >>
    /\ clean_checks = << >>
    /\ issues_md = << >>
    /\ TruncIdle
    /\ SubjectIdle
    /\ UtilsIdle
    /\ EnvIdle

\* main: issues_md = build_issues_md(sos_root)
ScriptBuildIssues ==
    /\ pc = "call_script_build_issues"
    /\ LET built == script_build_issues_md(sos_root, issue_checks)
       IN  /\ triggered_checks' = built.triggered_checks
           /\ clean_checks' = built.clean_checks
           /\ issues_md' = built.text
           /\ pc' = IF built.escaped THEN "script_build_issues_raised"
                    ELSE "script_build_issues_returned"
    /\ UNCHANGED << sos, issue_checks >>
    /\ UNCHANGED truncVars
    /\ UNCHANGED subjectVars
    /\ UNCHANGED utilsVars
    /\ UNCHANGED envVars

NextScript == ScriptBuildIssues

SpecScript == InitScript /\ [][NextScript]_vars
----------------------------------------------------------------------------
(* Claims about truncate_to_word_limit, checked under SpecTrunc *)

Returned == pc = "truncate_returned"

\* the part of the returned text that follows the prepended notice
NoticeLen == Len(WordTruncationNotice(0))
AfterNotice(text) == SubSeq(text, NoticeLen + 1, Len(text))

\* C3 (as stated): whenever truncate_to_word_limit reports was_truncated, the
\* returned text, notice included, has at most max_words words.
C3_TruncatedWithinLimit ==
    (Returned /\ result.was_truncated) => count_words(result.text) <= max_words

\* C3 (amended): whenever truncate_to_word_limit reports was_truncated, the
\* returned text starts with the notice, the kept lines after the notice hold
\* at most max(max_words, 0) words, and the returned text, notice included,
\* has at most max(max_words, 0) + 12 words, 12 being the words of the notice.
C3_TruncatedWithinLimitPlusNotice ==
    (Returned /\ result.was_truncated) =>
        /\ \E n \in 0 .. Max(max_words, 0) :
              SubSeq(result.text, 1, NoticeLen) = WordTruncationNotice(n)
        /\ count_words(AfterNotice(result.text)) <= Max(max_words, 0)
        /\ count_words(result.text) <= Max(max_words, 0) + 12

\* C3 witness: a truncation that keeps exactly max_words > 0 words, so that the
\* returned text holds max_words + 12 words.
C3_Witness ==
    /\ Returned /\ result.was_truncated /\ max_words > 0
    /\ count_words(AfterNotice(result.text)) = max_words
    /\ count_words(result.text) = max_words + 12

\* C4: was_truncated is true exactly when count_words(content) > max_words, and
\* when count_words(content) <= max_words the content is returned unchanged.
C4_TruncatedIffOverLimit ==
    Returned =>
        /\ result.was_truncated <=> (count_words(content) > max_words)
        /\ (count_words(content) <= max_words) => (result.text = content)

\* C4 witness: a content with exactly max_words >= 1 words comes back unchanged.
C4_Witness ==
    /\ Returned /\ max_words >= 1 /\ count_words(content) = max_words
    /\ ~result.was_truncated /\ result.text = content

\* position p of text is the start of a line (or the end of the text)
AtLineStart(text, p) ==
    \/ p = 1
    \/ p = Len(text) + 1
    \/ /\ p \in 2 .. Len(text)
       /\ IsLineBreak(text[p - 1])
       /\ ~(text[p - 1] = CR /\ text[p] = NL)

\* C5: when truncate_to_word_limit truncates, the text after the notice is a
\* suffix of the content that starts at the start of a line: whole lines, in
\* order, with their terminators; no line is split.
C5_WholeLinesOnly ==
    (Returned /\ result.was_truncated) =>
        \E p \in 1 .. Len(content) + 1 :
            /\ AtLineStart(content, p)
            /\ AfterNotice(result.text) = SubSeq(content, p, Len(content))

\* C5 witness: a truncation that drops a line holding several words and keeps
\* a later line whole, terminator included.
C5_Witness ==
    /\ Returned /\ result.was_truncated
    /\ \E p \in 3 .. Len(content) :
          /\ AfterNotice(result.text) = SubSeq(content, p, Len(content))
          /\ count_words(SubSeq(content, 1, p - 1)) >= 2
          /\ SP \in {content[i] : i \in 1 .. p - 1}
          /\ count_words(AfterNotice(result.text)) >= 1

----------------------------------------------------------------------------
(* Claims about the builders, checked under SpecBuilders *)

SubjectReturned == pc = "build_subject_returned"
IssuesReturned == pc = "build_issues_returned"

\* piece occurs in text
Contains(text, piece) ==
    \E i \in 1 .. Len(text) - Len(piece) + 1 :
        SubSeq(text, i, i + Len(piece) - 1) = piece

\* cut is body, or the truncation notice followed by whole lines from the end
\* of body
BodyOrItsTail(cut, body) ==
    \/ cut = body
    \/ /\ Len(cut) >= NoticeLen
       /\ SubSeq(cut, 1, NoticeLen)
             = WordTruncationNotice(count_words(AfterNotice(cut)))
       /\ \E p \in 1 .. Len(body) + 1 :
             /\ AtLineStart(body, p)
             /\ AfterNotice(cut) = SubSeq(body, p, Len(body))

\* C1: the document build_subject_md returns holds at most MAX_WORDS_PER_FILE
\* (499000) words, whether or not the body was truncated.
C1_SubjectWithinLimit ==
    SubjectReturned => count_words(subject_md) <= MAX_WORDS_PER_FILE

\* C1 witness: a document whose body was truncated and which comes within the
\* 20 words reserved for the notice of the ceiling.
C1_Witness ==
    /\ SubjectReturned
    /\ count_words(subject_md) > MAX_WORDS_PER_FILE - truncation_notice_words
    /\ count_words(subject_md) <= MAX_WORDS_PER_FILE
    /\ Contains(subject_md, SubSeq(WordTruncationNotice(0), 1, 3))

\* C2 (as stated): the document build_issues_md returns holds at most
\* MAX_WORDS_PER_FILE (499000) words, whatever the sizes of the identity files,
\* of the summary and of the display content of the triggered checks.
C2_IssuesWithinLimit ==
    IssuesReturned => count_words(issues_md) <= MAX_WORDS_PER_FILE

SubjectIsPlaceholder ==
    subject_md \in {SubjectHeader(sos_root, subject_def) \o NoMatchingFiles,
                    SubjectHeader(sos_root, subject_def) \o NoReadableFiles}

\* the part of text between a leading head and a trailing foot
Between(text, head, foot) == SubSeq(text, Len(head) + 1, Len(text) - Len(foot))

\* C6: truncation to the word budget trims the body only.  A document of
\* build_subject_md that is no placeholder is the complete header, then the body
\* or whole lines from its end, then the complete footer; the document of
\* build_issues_md is the complete header, the complete summary, the details or
\* whole lines from their end, then the complete footer.
C6_OnlyBodyTrimmed ==
    /\ (SubjectReturned /\ ~SubjectIsPlaceholder) =>
          LET header == SubjectHeader(sos_root, subject_def)
          IN  /\ IsPrefix(header, subject_md)
              /\ \E n \in 1 .. 2 :
                    /\ IsSuffix(SubjectFooter(n), subject_md)
                    /\ Len(subject_md) >= Len(header) + Len(SubjectFooter(n))
                    /\ BodyOrItsTail(Between(subject_md, header, SubjectFooter(n)),
                                     SubjectBody(sos_root, subject_def))
    /\ IssuesReturned =>
          LET head == IssuesHeader(sos_root)
                        \o IssuesSummary(triggered_checks, clean_checks)
          IN  /\ IsPrefix(head, issues_md)
              /\ IsSuffix(IssuesFooter, issues_md)
              /\ Len(issues_md) >= Len(head) + Len(IssuesFooter)
              /\ BodyOrItsTail(Between(issues_md, head, IssuesFooter),
                               IssuesDetails(triggered_checks))

\* C6 witness: a subject document whose body was cut to some of its last lines,
\* between the complete header and the complete footer.
C6_Witness ==
    /\ SubjectReturned /\ ~SubjectIsPlaceholder
    /\ LET header == SubjectHeader(sos_root, subject_def)
           cut == Between(subject_md, header, SubjectFooter(2))
       IN  /\ IsPrefix(header, subject_md)
           /\ IsSuffix(SubjectFooter(2), subject_md)
           /\ cut # SubjectBody(sos_root, subject_def)
           /\ count_words(AfterNotice(cut)) > 1

\* what read_file_safe gives for the source of check i
SourceText(i) ==
    read_file_safe(JoinPath(sos_root, issue_checks[i].source), LOG_MAX_LINES)
SourceKind(i) == NodeAt(JoinPath(sos_root, issue_checks[i].source)).kind

IsClean(i) == \E j \in DOMAIN clean_checks : clean_checks[j] = issue_checks[i].name
IsTriggered(i) ==
    \E j \in DOMAIN triggered_checks :
        triggered_checks[j].check_def.name = issue_checks[i].name
DisplayOf(i) ==
    triggered_checks[CHOOSE j \in DOMAIN triggered_checks :
        triggered_checks[j].check_def.name = issue_checks[i].name].display_content

HasFilter(i) == "filter" \in DOMAIN issue_checks[i]
PredicateFaults(i) == SourceKind(i) # "absent" /\ issue_checks[i].check = "raises"
FilterFaults(i) ==
    IsTriggered(i) /\ HasFilter(i) /\ issue_checks[i].filter = "raises"

\* the details were not cut: they stand whole before the footer
DetailsKept ==
    IsSuffix(IssuesDetails(triggered_checks) \o IssuesFooter, issues_md)

\* the detail section of check i showing text in a fenced block
FencedSection(i, text) ==
    Join(DetailHead(issue_checks[i]) \o << FENCE, strip(text), FENCE, << >> >>, << NL >>)

\* C7: no exception of a predicate or of a filter leaves build_issues_md.  A
\* check whose source is present and whose predicate raises is recorded as clean
\* and not as triggered; a triggered check whose filter raises is displayed with
\* the unfiltered text of its source; every later check with a source still
\* gets its outcome.
C7_FaultsIsolated ==
    /\ pc # "build_issues_raised"
    /\ IssuesReturned =>
          \A i \in DOMAIN issue_checks :
              /\ PredicateFaults(i) => (IsClean(i) /\ ~IsTriggered(i))
              /\ FilterFaults(i) =>
                    /\ DisplayOf(i) = SourceText(i)
                    /\ DetailsKept => Contains(issues_md, FencedSection(i, SourceText(i)))
              /\ (PredicateFaults(i) \/ FilterFaults(i)) =>
                    \A j \in DOMAIN issue_checks :
                        (j > i /\ SourceKind(j) # "absent") =>
                            (IsClean(j) \/ IsTriggered(j))

\* C7 witness: the predicate of the first check raises, the filter of the
\* second raises, and the third check is evaluated and triggers.
C7_Witness ==
    /\ IssuesReturned
    /\ PredicateFaults(1) /\ IsClean(1)
    /\ FilterFaults(2) /\ DisplayOf(2) = SourceText(2) /\ SourceKind(2) = "file"
    /\ IsTriggered(3)
    /\ DetailsKept

\* the line "## <name>" that opens the detail section of check i
SectionHeading(i) ==
    << NL, Lit("##", 1), SP >> \o issue_checks[i].name \o << NL >>

\* the two count lines of the summary
CountLines(flagged, passed) ==
    << Lit("- **Issues flagged:**", 3), SP, Num(flagged), NL,
       Lit("- **Checks passed:**", 3), SP, Num(passed), NL >>

\* C8: a check whose source file is absent is skipped: it is in neither list, it
\* is counted neither as flagged nor as passed, and it has no detail section.
C8_AbsentSkipped ==
    IssuesReturned =>
        LET present == {i \in DOMAIN issue_checks : SourceKind(i) # "absent"}
        IN  /\ \A i \in DOMAIN issue_checks :
                  SourceKind(i) = "absent" =>
                      /\ ~IsClean(i) /\ ~IsTriggered(i)
                      /\ ~Contains(issues_md, SectionHeading(i))
            /\ Len(triggered_checks) + Len(clean_checks) = Cardinality(present)
            /\ \E flagged \in 0 .. Cardinality(present) :
                  Contains(issues_md,
                           CountLines(flagged, Cardinality(present) - flagged))

\* C8 witness: the source of the first check, whose predicate is always true, is
\* absent, and the other two checks have their sources.
C8_Witness ==
    /\ IssuesReturned
    /\ SourceKind(1) = "absent" /\ issue_checks[1].check = "always"
    /\ SourceKind(2) = "file" /\ SourceKind(3) = "file"
    /\ Len(triggered_checks) + Len(clean_checks) = 2

\* C9 (as stated): a check whose source file exists but cannot be read is
\* skipped: it is recorded neither as triggered nor as clean.
C9_UnreadableSkipped ==
    IssuesReturned =>
        \A i \in DOMAIN issue_checks :
            SourceKind(i) = "unreadable" => (~IsTriggered(i) /\ ~IsClean(i))

\* the filter of check i returned an empty sequence of lines
FilterFoundNothing(i) ==
    /\ IsTriggered(i) /\ HasFilter(i)
    /\ ~FilterRaises(issue_checks[i], splitlines(SourceText(i)))
    /\ FilterValue(issue_checks[i], splitlines(SourceText(i))) = << >>

\* the detail section of check i showing the notice that names what was searched
NoticeSection(i, terms) ==
    Join(DetailHead(issue_checks[i])
            \o << << Lit("*Searched ~", 2), Lit(PathString(issue_checks[i].source), 1),
                     Lit("~ for", 2), SP >> \o terms
                     \o << SP, Lit("- no matching lines found.*", 5) >>,
                  << >>, << Lit("---", 1) >>, << >> >>, << NL >>)

\* C10: when a check triggers and its filter returns no line, its detail section
\* shows the notice "no matching lines found" naming the source and the
\* filter_terms of the check ("the specified patterns" when it defines none),
\* and no fenced block: neither empty output nor the unfiltered text.
C10_EmptyFilterNotice ==
    IssuesReturned =>
        \A i \in DOMAIN issue_checks :
            FilterFoundNothing(i) =>
                LET terms == IF "filter_terms" \in DOMAIN issue_checks[i]
                             THEN issue_checks[i].filter_terms
                             ELSE << Lit("the specified patterns", 3) >>
                IN  /\ DisplayOf(i) = None
                    /\ DetailsKept => Contains(issues_md, NoticeSection(i, terms))
                    /\ ~Contains(issues_md,
                                 Join(DetailHead(issue_checks[i]) \o << FENCE >>, << NL >>))

\* C10 witness: the filters of the first two checks return no line, the first
\* check defines no filter_terms and the second does, and both notices are in
\* the document.
C10_Witness ==
    /\ IssuesReturned /\ DetailsKept
    /\ FilterFoundNothing(1) /\ "filter_terms" \notin DOMAIN issue_checks[1]
    /\ FilterFoundNothing(2) /\ "filter_terms" \in DOMAIN issue_checks[2]
    /\ Contains(issues_md, NoticeSection(1, << Lit("the specified patterns", 3) >>))
    /\ Contains(issues_md, NoticeSection(2, issue_checks[2].filter_terms))

----------------------------------------------------------------------------
(* Claims about read_file_safe, checked under SpecRead *)

ReadReturned == pc = "read_file_safe_returned"

\* the lines of the file at args.filepath, as text mode reads them
LinesOfFile == readlines(FileData(NodeAt(args.filepath)))

\* C11 (as stated): read_file_safe on a file with exactly max_lines lines
\* returns the whole content without notice; on a file with more than max_lines
\* lines it returns the notice followed by exactly the last max_lines lines of
\* the file, in order, and none of the earlier lines.
C11_LastMaxLines ==
    (ReadReturned /\ NodeAt(args.filepath).kind = "file") =>
        /\ Len(LinesOfFile) = args.max_lines => returned = Concat(LinesOfFile)
        /\ Len(LinesOfFile) > args.max_lines =>
              returned = TruncationNotice(args.max_lines)
                  \o Concat(SubSeq(LinesOfFile,
                                   Len(LinesOfFile) - args.max_lines + 1,
                                   Len(LinesOfFile)))

\* C12: read_file_safe raises nothing for a read fault.  It returns None when
\* the path does not exist or is no regular file, and for a regular file whose
\* read fails it returns the text "[ERROR reading file: <message>]".
C12_ReadFaultsReturned ==
    /\ pc # "read_file_safe_raised"
    /\ ReadReturned =>
          /\ NodeAt(args.filepath).kind \in {"absent", "dir"} => returned = None
          /\ NodeAt(args.filepath).kind = "unreadable" =>
                /\ returned # None
                /\ returned = << Lit("[ERROR reading file:", 3), SP >>
                                 \o ReadErrorMessage \o << Lit("]", 1) >>
          /\ returned = None => NodeAt(args.filepath).kind \in {"absent", "dir"}

\* C12 witness: the read of an existing regular file failed and the call
\* returned the error text.
C12_Witness ==
    /\ ReadReturned
    /\ NodeAt(args.filepath).kind = "unreadable"
    /\ returned = ErrorText

----------------------------------------------------------------------------
(* Claims about resolve_paths, checked under SpecResolve *)

ResolveReturned == pc = "resolve_paths_returned"
ResolveReturnedAgain == pc = "resolve_paths_returned_again"

\* the place of an absolute path in the ascending order of the path strings
Rank(p) ==
    CHOOSE i \in 1 .. Len(PathOrder) : PathOrder[i] = make_relative(p, sos_root)

\* the explicit paths and the matches of the patterns
NamedPaths(fl, gp) ==
    {JoinPath(sos_root, fl[i]) : i \in DOMAIN fl}
        \cup UNION {GlobMatches(sos_root, gp[i]) : i \in DOMAIN gp}

\* the named paths that are files and the files at any depth beneath the named
\* paths that are directories
FilesNamedOrBeneath(fl, gp) ==
    {p \in TreePaths :
        /\ NodeAt(p).kind \in {"file", "unreadable"}
        /\ \E r \in NamedPaths(fl, gp) :
              \/ p = r
              \/ NodeAt(r).kind = "dir" /\ IsPrefix(r, p) /\ Len(p) > Len(r)}

\* C13: resolve_paths returns the strictly ascending list, without duplicates,
\* of exactly the files named by an explicit path or matched by a pattern and
\* the files at any depth beneath the directories so named; paths that do not
\* exist and patterns that match nothing add nothing.  A further call on the
\* unchanged tree, with the entries reordered or repeated within or between
\* file_list and glob_patterns, returns the same list.
C13_ResolveSortedExact ==
    /\ []((ResolveReturned \/ ResolveReturnedAgain) =>
            /\ \A i, j \in DOMAIN returned :
                  i < j => Rank(returned[i]) < Rank(returned[j])
            /\ Range(returned) = FilesNamedOrBeneath(args.file_list, args.glob_patterns))
    /\ [][(ResolveReturned /\ ResolveReturnedAgain') => returned' = returned]_vars

\* C13 witness: the second call, given a path that does not exist, a directory
\* and the pattern and the directory that overlap with it, returned in ascending
\* order the file next to the nested directory and the file two levels down.
C13_Witness ==
    /\ ResolveReturnedAgain
    /\ args.file_list = << <<"etc", "hostname">>, <<"etc">> >>
    /\ args.glob_patterns = << <<"etc", "*">>, <<"etc">>, <<"etc", "hostname">> >>
    /\ returned = << JoinPath(sos_root, <<"etc", "sysconfig.bak">>),
                     JoinPath(sos_root, <<"etc", "sysconfig", "network">>) >>

----------------------------------------------------------------------------
(* Claims about the sections of build_subject_md, checked under SpecBuilders *)

SubjectMaxLines ==
    IF "max_lines" \in DOMAIN subject_def THEN subject_def.max_lines
    ELSE DEFAULT_MAX_LINES

\* the files the subject names
SubjectResolved == FilesNamedOrBeneath(subject_def.files, subject_def.globs)

\* reading the file gives something other than whitespace: the error text, the
\* notice that lines were dropped, or a character of the file
YieldsContent(p) ==
    \/ NodeAt(p).kind = "unreadable"
    \/ /\ NodeAt(p).kind = "file"
       /\ \/ Len(readlines(FileData(NodeAt(p)))) > SubjectMaxLines
          \/ \E i \in DOMAIN FileData(NodeAt(p)) : ~IsSpace(FileData(NodeAt(p))[i])

SubjectBearing == {p \in SubjectResolved : YieldsContent(p)}

\* the heading that opens the section of a file, up to the opening fence
SubjectHeading(p) ==
    << Lit("##", 1), SP, Lit(PathString(make_relative(p, sos_root)), 1), NL, NL >>
        \o FENCE \o << NL >>

\* the section of a file: heading, then its trimmed text between fences
SubjectSection(p) ==
    SubjectHeading(p) \o strip(read_file_safe(p, SubjectMaxLines)) \o << NL >> \o FENCE

\* the body was cut to the word budget
SubjectBodyCut == Contains(subject_md, SubSeq(WordTruncationNotice(0), 1, 3))

\* when and which placeholder is returned
PlaceholderIffNoContent ==
    /\ subject_md = SubjectHeader(sos_root, subject_def) \o NoMatchingFiles
          <=> SubjectResolved = {}
    /\ subject_md = SubjectHeader(sos_root, subject_def) \o NoReadableFiles
          <=> (SubjectResolved # {} /\ SubjectBearing = {})

\* C14 (as stated): build_subject_md returns header + "no matching files" exactly
\* when the resolved set is empty and header + "no readable content" exactly when
\* it is not empty but every resolved file reads as absent or as empty after
\* trimming; in all other cases the output holds one section per file with
\* content and a footer.
C14_PlaceholderOrAllSections ==
    SubjectReturned =>
        /\ PlaceholderIffNoContent
        /\ SubjectBearing # {} =>
              /\ IsSuffix(SubjectFooter(Cardinality(SubjectBearing)), subject_md)
              /\ \A p \in SubjectResolved :
                    Contains(subject_md, SubjectSection(p)) <=> p \in SubjectBearing

\* C14 (amended): the placeholders are returned exactly as stated; in all other
\* cases the output ends with the footer counting the files with content and
\* holds no section of a file without content, and it holds one section per file
\* with content unless the body was cut to the word budget, which drops sections
\* from the head of the body.
C14_PlaceholderOrSectionsWithinBudget ==
    SubjectReturned =>
        /\ PlaceholderIffNoContent
        /\ SubjectBearing # {} =>
              /\ IsSuffix(SubjectFooter(Cardinality(SubjectBearing)), subject_md)
              /\ \A p \in SubjectResolved \ SubjectBearing :
                    ~Contains(subject_md, SubjectHeading(p))
              /\ ~SubjectBodyCut =>
                    \A p \in SubjectBearing : Contains(subject_md, SubjectSection(p))

\* C14 witness: of two resolved files one is empty after trimming and the other
\* has content; the document holds the one section and the footer counts 1.
C14_Witness ==
    /\ SubjectReturned
    /\ Cardinality(SubjectResolved) = 2
    /\ Cardinality(SubjectBearing) = 1
    /\ ~SubjectBodyCut
    /\ \E p \in SubjectBearing : Contains(subject_md, SubjectSection(p))
    /\ IsSuffix(SubjectFooter(1), subject_md)

\* the section of a file whose read failed: the error text between fences
ErrorSection(p) ==
    SubjectHeading(p)
        \o << Lit("[ERROR reading file:", 3), SP >> \o ReadErrorMessage
        \o << Lit("]", 1), NL >> \o FENCE

SubjectUnreadable == {p \in SubjectResolved : NodeAt(p).kind = "unreadable"}

\* C15 (as stated): in build_subject_md a resolved file that exists but cannot
\* be read is rendered as its own section whose fenced block holds the error
\* text; every other resolved file with content still gets its section, and the
\* report is neither a placeholder nor aborted.
C15_UnreadableOwnSection ==
    pc = "build_subject_returned" =>
        \A p \in SubjectUnreadable :
            /\ ~SubjectIsPlaceholder
            /\ Contains(subject_md, ErrorSection(p))
            /\ \A q \in SubjectBearing \ {p} : Contains(subject_md, SubjectSection(q))

\* C15 (amended): a resolved file that cannot be read never turns the report
\* into a placeholder or aborts it: the footer counts it among the files with
\* content, and unless the body was cut to the word budget the document holds
\* its section with the error text between fences and the section of every
\* other resolved file with content.
C15_UnreadableSectionWithinBudget ==
    pc = "build_subject_returned" =>
        \A p \in SubjectUnreadable :
            /\ ~SubjectIsPlaceholder
            /\ p \in SubjectBearing
            /\ IsSuffix(SubjectFooter(Cardinality(SubjectBearing)), subject_md)
            /\ ~SubjectBodyCut =>
                  /\ Contains(subject_md, ErrorSection(p))
                  /\ \A q \in SubjectBearing \ {p} :
                        Contains(subject_md, SubjectSection(q))

\* C15 witness: etc/hosts cannot be read and etc/resolv.conf has content; the
\* document holds the error section of the one and the section of the other.
C15_Witness ==
    /\ SubjectReturned
    /\ SubjectUnreadable = {JoinPath(sos_root, <<"etc", "hosts">>)}
    /\ JoinPath(sos_root, <<"etc", "resolv.conf">>) \in SubjectBearing
    /\ NodeAt(JoinPath(sos_root, <<"etc", "resolv.conf">>)).kind = "file"
    /\ Contains(subject_md, ErrorSection(JoinPath(sos_root, <<"etc", "hosts">>)))
    /\ Contains(subject_md, SubjectSection(JoinPath(sos_root, <<"etc", "resolv.conf">>)))
    /\ IsSuffix(SubjectFooter(2), subject_md)

----------------------------------------------------------------------------
(* Claim about two runs of a builder, checked under SpecRerun *)

SubjectReturnedAgain == pc = "build_subject_returned" /\ DOMAIN first_run # {}
IssuesReturnedAgain == pc = "build_issues_returned" /\ DOMAIN first_run # {}

----------------------------------------------------------------------------
(* The checks "SELinux Denials in Audit Log" and "Failed Systemd Units" *)

\* line holds word when letter case is ignored
Spells(line, word) ==
    \E i \in 1 .. Len(line) - Len(word) + 1 :
        \A j \in DOMAIN word : LowerChar(line[i + j - 1].c) = word[j]

\* the line contains 'avc:' or 'denied', case-insensitively
IsDenialLine(line) ==
    Spells(line, << "a", "v", "c", ":" >>) \/ Spells(line, << "d", "e", "n", "i", "e", "d" >>)

AuditLogLines ==
    splitlines(FileData(NodeAt(JoinPath(sos_root, issue_checks[2].source))))

\* the lines of the audit log that are read: the last LOG_MAX_LINES of them
AuditLogTail ==
    LET lines == AuditLogLines
    IN  IF Len(lines) > LOG_MAX_LINES
        THEN SubSeq(lines, Len(lines) - LOG_MAX_LINES + 1, Len(lines))
        ELSE lines

\* the detail section of check i, showing text, closes the details
LastFencedSection(i, text) ==
    IsSuffix(FencedSection(i, text) \o << NL, Lit("---", 1), NL >> \o IssuesFooter,
             issues_md)

\* the check triggers when a line of lines mentions a denial, and when more
\* than 200 do, the last 200 of them are displayed
TriggersAndShowsLast(lines) ==
    LET matching == SelectSeq(lines, IsDenialLine)
        shown == SubSeq(matching, Len(matching) - SELINUX_KEPT_LINES + 1, Len(matching))
    IN  /\ matching # << >> => IsTriggered(2)
        /\ Len(matching) > SELINUX_KEPT_LINES =>
              /\ DisplayOf(2) = Join(shown, << NL >>)
              /\ DetailsKept => LastFencedSection(2, Join(shown, << NL >>))

\* C17 (as stated): for the check "SELinux Denials in Audit Log" on a readable
\* var/log/audit/audit.log, the check triggers whenever some line of the file
\* contains 'avc:' or 'denied' in any letter case, and when more than 200 lines
\* match, the displayed content is exactly the last 200 matching lines, in file
\* order, joined by newlines.
C17_SELinuxAnyLine ==
    (IssuesReturned /\ issue_checks = ISSUE_CHECKS /\ SourceKind(2) = "file") =>
        TriggersAndShowsLast(AuditLogLines)

\* C17 (amended): the lines that count are the last LOG_MAX_LINES lines of the
\* file, the ones read_file_safe keeps.  The check triggers whenever one of
\* them contains 'avc:' or 'denied' in any letter case; when more than 200 of
\* them match, display_content is exactly the last 200 matching lines, in file
\* order, joined by newlines, and the fenced block of the detail section holds
\* that text with the whitespace around it trimmed.  A denial in a line before
\* the last LOG_MAX_LINES lines does not trigger the check.
C17_SELinuxLastMatching ==
    (IssuesReturned /\ issue_checks = ISSUE_CHECKS /\ SourceKind(2) = "file") =>
        /\ TriggersAndShowsLast(AuditLogTail)
        /\ SelectSeq(AuditLogTail, IsDenialLine) = << >> => IsClean(2)

\* C17 witness: an audit log of more than 200 lines, some of them without a
\* denial and more than 200 with one in each of the three spellings; the check
\* triggers and 200 lines are displayed, the last of them the last line of the
\* file.
C17_Witness ==
    /\ IssuesReturned /\ issue_checks = ISSUE_CHECKS /\ SourceKind(2) = "file"
    /\ Len(AuditLogLines) = MaxLogLines
    /\ Len(SelectSeq(AuditLogLines, IsDenialLine)) > SELINUX_KEPT_LINES
    /\ Len(SelectSeq(AuditLogLines, IsDenialLine)) < MaxLogLines
    /\ IsTriggered(2)
    /\ Len(splitlines(DisplayOf(2))) = SELINUX_KEPT_LINES
    /\ DetailsKept /\ LastFencedSection(2, DisplayOf(2))

\* text holds the substring '0 loaded units listed', in this letter case
ListsNoUnits(text) ==
    \E i \in 1 .. Len(text) - Len(NoUnitsListed) + 1 :
        \A j \in DOMAIN NoUnitsListed : text[i + j - 1].c = NoUnitsListed[j]

\* the content of the source of the first check, as the file holds it
UnitsFile == FileData(NodeAt(JoinPath(sos_root, issue_checks[1].source)))

\* text without the line terminator that ends it, if one does
WithoutFinalNewline(text) ==
    IF Len(text) >= 2 /\ text[Len(text) - 1] = CR /\ text[Len(text)] = NL
    THEN SubSeq(text, 1, Len(text) - 2)
    ELSE IF text # << >> /\ IsLineBreak(text[Len(text)])
    THEN SubSeq(text, 1, Len(text) - 1)
    ELSE text

\* the detail section of check i showing text as it is, nothing trimmed
VerbatimSection(i, text) ==
    Join(DetailHead(issue_checks[i]) \o << FENCE, text, FENCE, << >> >>, << NL >>)

\* the check is clean when the text is blank or lists no units, and triggers
\* otherwise
CleanOrTriggered(text) ==
    IF strip(text) = << >> \/ ListsNoUnits(text)
    THEN IsClean(1) /\ ~IsTriggered(1)
    ELSE IsTriggered(1) /\ ~IsClean(1)

\* C18 (as stated): for the check "Failed Systemd Units" with a readable source
\* file: the check is clean if the content is empty after trimming or contains
\* '0 loaded units listed', and triggers otherwise; when it triggers, the detail
\* section shows the full content of the file verbatim (the line terminator
\* that ends the file may stand as the end of the last line shown).
C18_FailedUnitsVerbatim ==
    (IssuesReturned /\ issue_checks = ISSUE_CHECKS /\ SourceKind(1) = "file") =>
        /\ CleanOrTriggered(UnitsFile)
        /\ (IsTriggered(1) /\ DetailsKept) =>
              \/ Contains(issues_md, VerbatimSection(1, UnitsFile))
              \/ Contains(issues_md, VerbatimSection(1, WithoutFinalNewline(UnitsFile)))

\* C18 (amended): for the check "Failed Systemd Units" with a readable source
\* file: the check is clean if the content read is empty after trimming or
\* contains '0 loaded units listed' in this letter case, and triggers
\* otherwise; when it triggers, display_content is the whole content read, no
\* filter applied, and the fenced block of the detail section holds it with the
\* whitespace before its first and after its last visible character trimmed.
C18_FailedUnitsTrimmed ==
    (IssuesReturned /\ issue_checks = ISSUE_CHECKS /\ SourceKind(1) = "file") =>
        /\ CleanOrTriggered(SourceText(1))
        /\ IsTriggered(1) =>
              /\ DisplayOf(1) = SourceText(1)
              /\ DetailsKept => Contains(issues_md, FencedSection(1, SourceText(1)))

\* C18 witness: the file of failed units begins with blanks and ends with
\* an empty line; the check triggers and its section shows the trimmed content.
C18_Witness ==
    /\ IssuesReturned /\ issue_checks = ISSUE_CHECKS /\ SourceKind(1) = "file"
    /\ IsTriggered(1) /\ DetailsKept
    /\ strip(UnitsFile) # UnitsFile
    /\ WithoutFinalNewline(UnitsFile) # strip(UnitsFile)
    /\ Contains(issues_md, FencedSection(1, SourceText(1)))
    /\ ~Contains(issues_md, VerbatimSection(1, UnitsFile))

----------------------------------------------------------------------------
(* is_valid_sos_directory *)

ValidateReturned == pc = "is_valid_sos_directory_returned"

\* the indicators that exist under the path given
PresentIndicators ==
    {sos_indicators[i] : i \in {j \in DOMAIN sos_indicators :
        NodeAt(args.path \o << sos_indicators[j] >>).kind # "absent"}}

\* the place of an indicator in the fixed list
IndicatorIndex(ind) == CHOOSE i \in DOMAIN sos_indicators : sos_indicators[i] = ind

\* C19: is_valid_sos_directory(path) reports valid if and only if 'sos_commands'
\* and at least 2 other indicators of the fixed list of 13 exist under path, or
\* at least 4 indicators of the list exist; the list returned holds exactly the
\* indicators that exist, each once, in the order of the fixed list.
C19_ValidIffEnoughIndicators ==
    ValidateReturned =>
        LET present == PresentIndicators
            found == returned.found
        IN  /\ Len(sos_indicators) = 13
            /\ returned.is_valid <=>
                  \/ /\ "sos_commands" \in present
                     /\ Cardinality(present \ {"sos_commands"}) >= 2
                  \/ Cardinality(present) >= 4
            /\ {found[i] : i \in DOMAIN found} = present
            /\ \A i, j \in DOMAIN found :
                  i < j => IndicatorIndex(found[i]) < IndicatorIndex(found[j])

\* C19 witness: 'sos_commands' and exactly two other indicators exist, the
\* directory is reported valid and the three are returned in list order.
C19_Witness ==
    /\ ValidateReturned
    /\ returned.is_valid
    /\ returned.found = << "sos_commands", "proc", "version.txt" >>
    /\ Cardinality(PresentIndicators) = 3

----------------------------------------------------------------------------
(* heading_anchor *)

AnchorReturned == pc = "heading_anchor_returned"

\* the characters of a text written character by character
CharsOf(text) == [i \in DOMAIN text |-> text[i].c]

SmallOf(ch) ==
    CASE ch = "A" -> "a"
      [] OTHER -> ch
IsLetterOrDigit(ch) == ch \in {"A", "a", "b", "7", "U+2102"}

\* the pieces of cs between its hyphens, empty pieces included
RECURSIVE HyphenPieces(_)
HyphenPieces(cs) ==
    IF \A i \in DOMAIN cs : cs[i] # "-" THEN << cs >>
    ELSE LET first == CHOOSE i \in DOMAIN cs :
                          cs[i] = "-" /\ \A j \in 1 .. i - 1 : cs[j] # "-"
         IN  << SubSeq(cs, 1, first - 1) >> \o HyphenPieces(SubSeq(cs, first + 1, Len(cs)))

\* the name lowercased, only letters, digits, spaces and hyphens kept, spaces
\* turned into hyphens, every run of hyphens made one, no hyphen at either end
Slug(cs) ==
    LET small == [i \in DOMAIN cs |-> SmallOf(cs[i])]
        Kept(ch) == IsLetterOrDigit(ch) \/ ch \in {" ", "-"}
        kept == SelectSeq(small, Kept)
        hyphened == [i \in DOMAIN kept |-> IF kept[i] = " " THEN "-" ELSE kept[i]]
        NonEmpty(piece) == piece # << >>
    IN  Join(SelectSeq(HyphenPieces(hyphened), NonEmpty), << "-" >>)

\* what the claim says of the shape of the result, for the set capitals of the
\* letters counted as uppercase
WellFormedAnchor(anchor, capitals) ==
    /\ \A i \in DOMAIN anchor : anchor[i] \notin capitals /\ anchor[i] # " "
    /\ \A i \in 1 .. Len(anchor) - 1 : ~(anchor[i] = "-" /\ anchor[i + 1] = "-")
    /\ anchor # << >> => (anchor[1] # "-" /\ anchor[Len(anchor)] # "-")

\* C20 (as stated): for every name, heading_anchor(name) is the name lowercased,
\* with every character other than letters, digits, spaces and hyphens
\* removed, spaces replaced by hyphens, runs of hyphens collapsed to one and
\* leading and trailing hyphens trimmed; the result contains no uppercase
\* letter, no space, no two adjacent hyphens, and neither starts nor ends with
\* a hyphen.
C20_AnchorNoUppercase ==
    AnchorReturned =>
        /\ CharsOf(returned) = Slug(CharsOf(args.name))
        /\ WellFormedAnchor(CharsOf(returned), {"A", "U+2102"})

\* C20 (amended): the same, except that an uppercase letter which has no
\* lowercase form stays in the result as it is: the result contains no uppercase
\* letter that has a lowercase form, no space, no two adjacent hyphens, and
\* neither starts nor ends with a hyphen.
C20_AnchorNoCasedUppercase ==
    AnchorReturned =>
        /\ CharsOf(returned) = Slug(CharsOf(args.name))
        /\ WellFormedAnchor(CharsOf(returned), {"A"})

\* C20 witness: the name "A- -b", with a capital and a space between two
\* hyphens; its anchor is "a-b".
C20_Witness ==
    /\ AnchorReturned
    /\ CharsOf(args.name) = << "A", "-", " ", "-", "b" >>
    /\ CharsOf(returned) = << "a", "-", "b" >>

----------------------------------------------------------------------------
(* the names of the registry *)

LinksReturned == pc = "summary_links_returned"

\* C21: two different entries of ISSUE_CHECKS have different names, and the
\* anchors that the summary links to them are different as well.
C21_NamesAndAnchorsDistinct ==
    LinksReturned /\ args.first # args.second =>
        /\ RegistryName(args.first) # RegistryName(args.second)
        /\ returned[1] # returned[2]
        /\ returned[1] # << >>

\* the links to "Kernel Errors / Panics / Oops in dmesg" and to "Kdump / Crash
\* Configuration", whose names hold characters that the anchor drops
C21_Witness ==
    /\ LinksReturned
    /\ CharsOf(RegistryName(args.first)) = RegistryNames[4]
    /\ CharsOf(RegistryName(args.second)) = RegistryNames[12]
    /\ CharsOf(returned[1]) = << "k", "e", "r", "n", "e", "l", "-", "e", "r", "r", "o", "r", "s", "-", "p", "a", "n", "i", "c", "s", "-", "o", "o", "p", "s", "-", "i", "n", "-", "d", "m", "e", "s", "g" >>
    /\ CharsOf(returned[2]) = << "k", "d", "u", "m", "p", "-", "c", "r", "a", "s", "h", "-", "c", "o", "n", "f", "i", "g", "u", "r", "a", "t", "i", "o", "n" >>

----------------------------------------------------------------------------
(* The backward scan of truncate_to_word_limit, checked under SpecTrunc *)

\* the last j of the lines
LastOf(lines, j) == SubSeq(lines, Len(lines) - j + 1, Len(lines))

\* the words of the lines, counted line by line
RECURSIVE WordsOfLines(_)
WordsOfLines(lines) ==
    IF lines = << >> THEN 0 ELSE count_words(Head(lines)) + WordsOfLines(Tail(lines))

\* the length of the longest suffix of the lines that holds at most limit
\* words; 0 when not even the empty suffix does (limit < 0)
LongestFitting(lines, limit) ==
    LET fitting == {j \in 0 .. Len(lines) : WordsOfLines(LastOf(lines, j)) <= limit}
    IN  IF fitting = {} THEN 0 ELSE CHOOSE j \in fitting : \A i \in fitting : i <= j

\* C22: when truncate_to_word_limit truncates, the lines kept after the notice
\* are the longest suffix of the lines of the content that holds at most
\* max_words words, whether or not a line before that suffix would fit; when
\* the last line alone holds more than max_words words the returned text is the
\* notice alone; and the number in the notice is the word count of the kept
\* lines.
C22_LongestFittingSuffix ==
    (Returned /\ result.was_truncated) =>
        LET lines == splitlines_keepends(content)
            kept == LastOf(lines, LongestFitting(lines, max_words))
        IN  /\ result.text = WordTruncationNotice(WordsOfLines(kept)) \o Concat(kept)
            /\ (lines # << >> /\ count_words(lines[Len(lines)]) > max_words) =>
                  result.text = WordTruncationNotice(0)

\* C22 witness: of three lines of one, two and one words, with max_words = 2,
\* only the last is kept: the second does not fit and ends the scan, although
\* the first would fit.
C22_Witness ==
    /\ Returned /\ result.was_truncated
    /\ content = << A, NL, W2, NL, A >>
    /\ max_words = 2
    /\ result.text = WordTruncationNotice(1) \o << A >>

----------------------------------------------------------------------------
(* The orchestrator main, checked under SpecMain *)

MainReturned == pc = "main_returned"
MainExited == pc = "exited"

\* the builder calls and file writes of a complete run over the subject ids
\* keys, in order
RECURSIVE RunOf(_)
RunOf(keys) ==
    IF keys = << >>
    THEN << [call |-> "build_issues_md", of |-> "00_issues_investigation.md"],
            [call |-> "write", of |-> "00_issues_investigation.md"] >>
    ELSE << [call |-> "build_subject_md", of |-> Head(keys)],
            [call |-> "write", of |-> Head(keys) \o ".md"] >> \o RunOf(Tail(keys))

\* how many times the file name has been written
WritesOf(name) ==
    Cardinality({i \in DOMAIN events : events[i] = [call |-> "write", of |-> name]})

OutputFiles ==
    {args.SUBJECTS[i] \o ".md" : i \in DOMAIN args.SUBJECTS} \cup {"00_issues_investigation.md"}

\* C23: at every moment of a run of main, what has been done so far is the
\* beginning of: for each subject in SUBJECTS order, build its report, then
\* write '<key>.md'; after the last subject build the issues report, then write
\* '00_issues_investigation.md'.  No file is written twice, and when main
\* returns every output file has been written exactly once.
C23_SubjectsInOrderThenIssues ==
    /\ IsPrefix(events, RunOf(args.SUBJECTS))
    /\ \A name \in OutputFiles : WritesOf(name) <= 1
    /\ MainReturned =>
          /\ events = RunOf(args.SUBJECTS)
          /\ \A name \in OutputFiles : WritesOf(name) = 1 /\ name \in output_dir.items

\* C23 witness: main has returned after writing the files of three subjects and
\* the issues report into a directory that held earlier reports.
C23_Witness ==
    /\ MainReturned
    /\ args.SUBJECTS = << "security", "networking", "storage" >>
    /\ "networking.md" \in args.output_dir.items
    /\ Len(events) = 8
    /\ events[2] = [call |-> "write", of |-> "security.md"]
    /\ events[3] = [call |-> "build_subject_md", of |-> "networking"]
    /\ events[7] = [call |-> "build_issues_md", of |-> "00_issues_investigation.md"]

\* what confirm_prompt answers on the lines typed: the first line that reads,
\* trimmed and in small letters, y or yes ("yes"), or n, no or nothing ("no");
\* "eof" when the lines end before
RECURSIVE Answer(_)
Answer(lines) ==
    IF lines = << >> THEN "eof"
    ELSE LET response == lower(strip(Head(lines)))
         IN  IF response \in {Chars(<< "y" >>), Chars(<< "y", "e", "s" >>)} THEN "yes"
             ELSE IF response \in {Chars(<< "n" >>), Chars(<< "n", "o" >>), << >>} THEN "no"
             ELSE Answer(Tail(lines))

\* the guards up to the confirmation, on the state before the run
IndicatorsFound ==
    Cardinality({i \in DOMAIN sos_indicators : sos[<< sos_indicators[i] >>].kind # "absent"})
SosDirectoryPasses ==
    /\ Len(args.argv) >= 3
    /\ sos[<< >>].kind = "dir"
    /\ \/ IndicatorsFound >= 4
       \/ IndicatorsFound >= 3 /\ sos[<< "sos_commands" >>].kind # "absent"
AsksConfirmation ==
    /\ SosDirectoryPasses
    /\ args.output_dir.kind = "dir"
    /\ ~args.output_dir.same
    /\ args.output_dir.items # {}
GuardsPassed ==
    /\ SosDirectoryPasses
    /\ \/ args.output_dir.kind = "absent"
       \/ /\ args.output_dir.kind = "dir"
          /\ ~args.output_dir.same
          /\ args.output_dir.items = {} \/ Answer(args.stdin) = "yes"

\* C24: main calls a builder or writes a report only when every guard has
\* passed: at least two arguments, sos_root a directory that
\* is_valid_sos_directory accepts, the output path missing or a directory other
\* than sos_root, and a y/yes at the prompt when that directory holds something.
\* When a guard fails the process ends with nothing built and nothing written,
\* with status 0 when the prompt was answered n, no or with an empty line, and
\* with status 1 otherwise.
C24_NoReportUnlessGuardsPass ==
    /\ (events # << >> \/ MainReturned \/ output_dir.items # args.output_dir.items)
          => GuardsPassed
    /\ (MainExited /\ ~GuardsPassed) =>
          /\ events = << >>
          /\ output_dir = args.output_dir
          /\ exit_status =
                IF AsksConfirmation /\ Answer(args.stdin) = "no" THEN 0 ELSE 1
    /\ (~MainExited /\ ~MainReturned) => exit_status = None

\* C24 witness: the output directory holds a file; the user types "ok", is
\* asked again and types "n"; the process ends with status 0 and nothing built.
C24_Witness ==
    /\ MainExited
    /\ exit_status = 0
    /\ events = << >>
    /\ args.output_dir.items = {"notes.txt"}
    /\ args.stdin = << Chars(<< "o", "k" >>), Chars(<< "n" >>) >>
    /\ stdin = << >>

----------------------------------------------------------------------------
(* The two lists of build_issues_md, checked under SpecBuilders *)

\* the positions at which piece stands in text
Occurrences(text, piece) ==
    {p \in 1 .. Len(text) - Len(piece) + 1 : SubSeq(text, p, p + Len(piece) - 1) = piece}

\* the positions i, i + 1, ... of the registry that are in picked, ascending
RECURSIVE PickedFrom(_, _)
PickedFrom(picked, i) ==
    IF i > Len(issue_checks) THEN << >>
    ELSE (IF i \in picked THEN << i >> ELSE << >>) \o PickedFrom(picked, i + 1)

\* the start of the heading of a detail section
HeadingStart == << NL, Lit("##", 1), SP >>

\* text holds one detail section for each check of flagged and no other, in
\* the order of flagged
OneSectionEach(text, flagged) ==
    /\ Cardinality(Occurrences(text, HeadingStart)) = Len(flagged)
    /\ \A j \in DOMAIN flagged :
          Cardinality(Occurrences(text, SectionHeading(flagged[j]))) = 1
    /\ \A j \in 1 .. Len(flagged) - 1 :
          \A p \in Occurrences(text, SectionHeading(flagged[j])) :
              \A q \in Occurrences(text, SectionHeading(flagged[j + 1])) : p < q

\* the lines of the summary that link to the checks of flagged, and those that
\* name the checks of passed
LinkLines(flagged) ==
    << NL >> \o Join([j \in DOMAIN flagged |-> FlaggedLine(issue_checks[flagged[j]])], << NL >>)
        \o << NL, NL >>
CleanLines(passed) ==
    << NL >> \o Join([j \in DOMAIN passed |->
                        << Lit("-", 1), SP >> \o issue_checks[passed[j]].name], << NL >>)
        \o << NL, NL >>

\* C25: in build_issues_md every check whose source was read (content is not
\* None) is in exactly one of triggered_checks and clean_checks; the counts
\* "Issues flagged" and "Checks passed" add up to the number of those checks;
\* both lists, the lines of the summary and the detail sections are in registry
\* order; and the details hold, before truncation, exactly one section per
\* triggered check.
C25_ListsPartitionInOrder ==
    IssuesReturned =>
        LET present == {i \in DOMAIN issue_checks : SourceKind(i) # "absent"}
            flagged == PickedFrom({i \in present : IsTriggered(i)}, 1)
            passed == PickedFrom({i \in present : IsClean(i)}, 1)
        IN  /\ \A i \in present : IsTriggered(i) # IsClean(i)
            /\ Len(flagged) + Len(passed) = Cardinality(present)
            /\ Len(triggered_checks) = Len(flagged)
            /\ \A j \in DOMAIN flagged :
                  triggered_checks[j].check_def = issue_checks[flagged[j]]
            /\ Len(clean_checks) = Len(passed)
            /\ \A j \in DOMAIN passed : clean_checks[j] = issue_checks[passed[j]].name
            /\ Contains(issues_md, CountLines(Len(flagged), Len(passed)))
            /\ flagged # << >> => Contains(issues_md, LinkLines(flagged))
            /\ passed # << >> => Contains(issues_md, CleanLines(passed))
            /\ OneSectionEach(<< NL >> \o IssuesDetails(triggered_checks), flagged)
            /\ DetailsKept => OneSectionEach(issues_md, flagged)

\* C25 witness: the first and the third check trigger and the second is clean;
\* the document holds the two detail sections, the first check's first.
C25_Witness ==
    /\ IssuesReturned /\ DetailsKept
    /\ IsTriggered(1) /\ IsClean(2) /\ IsTriggered(3)
    /\ Len(triggered_checks) = 2 /\ Len(clean_checks) = 1
    /\ \E p \in Occurrences(issues_md, SectionHeading(1)) :
          \E q \in Occurrences(issues_md, SectionHeading(3)) : p < q

----------------------------------------------------------------------------
(* The footer of build_subject_md, checked under SpecBuilders *)

\* the files whose section, heading and fenced block, stands in the document
SectionsPresent == {p \in SubjectResolved : Contains(subject_md, SubjectSection(p))}

\* C26 (as stated): in every document of build_subject_md that is no
\* placeholder, the number N of the footer "*Total files included: N*" is the
\* number of file sections that stand in the document, also when the body was
\* cut to the word budget.
C26_FooterCountsSections ==
    (SubjectReturned /\ ~SubjectIsPlaceholder) =>
        IsSuffix(SubjectFooter(Cardinality(SectionsPresent)), subject_md)

----------------------------------------------------------------------------
(* The two copies of build_issues_md, checked under SpecScript *)

ScriptIssuesReturned == pc = "script_build_issues_returned"

\* what builders.build_issues_md records on the same tree and registry
BuildersRan == RunChecks(sos_root, issue_checks, 1)

\* C27 (as stated): the build_issues_md of preproc-sos.py and
\* builders.build_issues_md agree, on every tree, on the checks that are
\* skipped, clean and triggered, and on what the detail section of each
\* triggered check displays: the filtered lines, the full text, or the notice
\* that no line matched when the filter returns none.
C27_ScriptAgreesWithBuilders ==
    ScriptIssuesReturned =>
        /\ ~BuildersRan.escaped
        /\ clean_checks = BuildersRan.clean
        /\ Len(triggered_checks) = Len(BuildersRan.triggered)
        /\ \A j \in DOMAIN triggered_checks :
              /\ triggered_checks[j].check_def = BuildersRan.triggered[j].check_def
              /\ DetailSection(triggered_checks[j].check_def,
                               triggered_checks[j].display_content)
                 = DetailSection(BuildersRan.triggered[j].check_def,
                                 BuildersRan.triggered[j].display_content)
====
